---- MODULE Spec2Model ----
(***************************************************************************)
(* Model of the meta-coordination core of proactiva-dev:                   *)
(*   - A2ACommunicationMesh  (Python, sprint 7: a2a-communication)         *)
(*   - TrustNetwork          (Python, sprint 7: trust-network)             *)
(*   - ExperienceStore / CollectiveLearningEngine (TypeScript, sprint 9)   *)
(*   - CollectiveIntelligence (TypeScript, sprint 10)                      *)
(* The four are separate programs (two Python scripts, two TypeScript      *)
(* classes that never call each other); `program` says which one a         *)
(* behaviour runs.                                                         *)
(*                                                                         *)
(* Numbers.  Trust, quality, success rates and fitness are floating point  *)
(* in the source.  They are modelled in fixed point: a value x in [0,1]    *)
(* is the integer round(x * Scale); products are rounded to nearest, as    *)
(* IEEE arithmetic rounds.  Qualities are given in tenths (0..10).         *)
(***************************************************************************)
EXTENDS Integers, Sequences, FiniteSets, TLC

(* ---------------------------------------------------------------------- *)
(* Bounds of the model                                                     *)
(* ---------------------------------------------------------------------- *)
MaxOps == 4          \* public calls explored after a fresh initial state
MaxTrustOps == 2     \* public calls explored after a warmed-up trust ledger
MaxWarm == 24        \* longest run of identical trust updates behind an initial state
MaxRun == 20         \* longest run of identical updates compared by the twin experiment
Capacity == 2        \* the capacity the store is configured with (store['maxSize'] = C)
MaxClock == 2        \* clock ticks (time.time() / Date.now()) explored

(* ---------------------------------------------------------------------- *)
(* Fixed-point arithmetic                                                  *)
(* ---------------------------------------------------------------------- *)
Scale == 10 * 100
Half == Scale \div 2

Min(a, b) == IF a <= b THEN a ELSE b
Max(a, b) == IF a >= b THEN a ELSE b

\* x / d rounded to nearest (ties away from zero), d > 0
RoundDiv(x, d) ==
    IF x >= 0 THEN (2 * x + d) \div (2 * d)
              ELSE 0 - ((2 * (0 - x) + d) \div (2 * d))

Qualities == {0, 5, 10}          \* quality scores 0.0, 0.5, 1.0 (tenths)
Agents == {1, 2}                 \* agent ids (TrustNetwork: agent-0, agent-1)

VARIABLES
    program,                \* which of the four programs this behaviour runs
    nops,                   \* number of budgeted public calls made so far
    budget,                 \* number of public calls this behaviour explores
    last,                   \* the last public call and what it returned
    \* A2ACommunicationMesh
    trust_scores,           \* sorted pair -> score
    successful_exchanges,
    failed_exchanges,
    channels,               \* sorted pair -> channel
    message_history,        \* copies (to_dict) of every message sent
    pending_messages,       \* agent -> messages not yet received
    communication_patterns,
    nego,                   \* the frame of the negotiate call in progress
    delivered,              \* agent -> number of messages receive_messages has returned
    \* TrustNetwork
    trust_matrix,           \* [agent -> [agent -> score]]
    interaction_history,    \* number of recorded interactions
    \* ExperienceStore
    experiences,            \* Map id -> Experience, in insertion order
    patterns,               \* Map id -> Pattern, in insertion order
    maxSize,                \* the capacity C
    now,                    \* Date.now() as last read
    history,                \* the experiences stored so far, while ids are new and timestamps increase
    \* CollectiveLearningEngine
    trustMatrix,            \* ordered pair -> score
    \* CollectiveIntelligence
    evolutionGeneration,
    fitnessScore,
    learnedPatterns,        \* Map id -> Pattern, in insertion order
    emergentStrategies,     \* Map id -> Strategy, in insertion order
    globalMetrics,          \* [totalExecutions, recentFitnessScores]
    cycles,                 \* the triggerEvolution calls in progress
    \* twin experiment on the update rules
    run

ctlVars == <<program, nops, budget, last>>
meshVars == <<trust_scores, successful_exchanges, failed_exchanges, channels,
              message_history, pending_messages, communication_patterns, nego,
              delivered>>
tnVars == <<trust_matrix, interaction_history>>
storeVars == <<experiences, patterns, maxSize, now, history>>
engineVars == <<trustMatrix>>
ciVars == <<evolutionGeneration, fitnessScore, learnedPatterns, emergentStrategies,
            globalMetrics, cycles>>
vars == <<program, nops, budget, last, trust_scores, successful_exchanges,
          failed_exchanges, channels, message_history, pending_messages,
          communication_patterns, nego, delivered, trust_matrix, interaction_history,
          experiences, patterns, maxSize, now, history, trustMatrix,
          evolutionGeneration, fitnessScore, learnedPatterns, emergentStrategies,
          globalMetrics, cycles, run>>

(* ====================================================================== *)
(* A2ACommunicationMesh: trust                                             *)
(* ====================================================================== *)

\* how far the clock can have moved when a call reads it
Ticks == {d \in {0, 1} : now + d <= MaxClock}

\* tuple(sorted([agent1, agent2]))
TrustKey(a, b) == <<Min(a, b), Max(a, b)>>

\* self.trust_scores.get(trust_key, 0.5)
MeshGet(ts, k) == IF k \in DOMAIN ts THEN ts[k] ELSE Half

get_trust_score(a, b) == MeshGet(trust_scores, TrustKey(a, b))

\* update_trust with a failure that costs less than a success gains
MeshAdjustment_SlowFailure(t, success, q) ==
    IF success THEN RoundDiv(q * (Scale - t), 100)
               ELSE 0 - RoundDiv(5 * t, 100)

\* the adjustment of update_trust
MeshAdjustment(t, success, q) ==
    IF success THEN RoundDiv(q * (Scale - t), 100)      \* 0.1 * quality * (1 - t)
               ELSE 0 - RoundDiv(15 * t, 100)           \* -0.15 * t

\* max(0, min(1, current_trust + adjustment))
MeshNewTrust(t, success, q) ==
    Max(0, Min(Scale, t + MeshAdjustment(t, success, q)))

\* a map with one more (or one changed) entry
Put(f, k, v) == [x \in (DOMAIN f) \cup {k} |-> IF x = k THEN v ELSE f[x]]

EmptyMap == [x \in {} |-> 0]

\* no negotiate call is in progress
IdleFrame == [pc |-> "idle"]

update_trust(a, b, success, q) ==
    /\ program = "mesh"
    /\ nops < budget
    /\ nego = IdleFrame
    /\ LET k == TrustKey(a, b)
           cur == MeshGet(trust_scores, k)
           new == MeshNewTrust(cur, success, q)
       IN /\ trust_scores' = Put(trust_scores, k, new)
          /\ successful_exchanges' = successful_exchanges + (IF success THEN 1 ELSE 0)
          /\ failed_exchanges' = failed_exchanges + (IF success THEN 0 ELSE 1)
          /\ last' = [op |-> "update_trust", a |-> a, b |-> b, success |-> success,
                      quality |-> q, result |-> new]
    /\ nops' = nops + 1
    /\ UNCHANGED <<delivered, program, budget, channels, message_history, pending_messages,
                   communication_patterns, nego, tnVars, storeVars, engineVars,
                   ciVars, run>>

(* ====================================================================== *)
(* A2ACommunicationMesh: channels, messages, negotiation                   *)
(* ====================================================================== *)
(* One reading of time.time() is taken per public call (a negotiation runs  *)
(* within one millisecond); `now' counts milliseconds.  negotiate is a      *)
(* synchronous loop: it is modelled one iteration at a time, and no other   *)
(* call runs while its frame is open.                                       *)

MsPerSecond == 1000         \* int(time.time() * 1000)

\* establish_channel: the channel table and the trust table after the call
ChannelsWith(ch, a, b, t) ==
    IF TrustKey(a, b) \in DOMAIN ch THEN ch
    ELSE Put(ch, TrustKey(a, b),
             [agents |-> <<a, b>>, created |-> t, message_count |-> 0,
              last_activity |-> t, status |-> "active"])

TrustWith(ch, ts, a, b) ==
    IF TrustKey(a, b) \in DOMAIN ch \/ TrustKey(a, b) \in DOMAIN ts THEN ts
    ELSE Put(ts, TrustKey(a, b), Half)

establish_channel(a, b) ==
    /\ program = "mesh"
    /\ nops < budget
    /\ nego = IdleFrame
    /\ \E d \in Ticks :
          /\ now' = now + d
          /\ channels' = ChannelsWith(channels, a, b, now + d)
    /\ trust_scores' = TrustWith(channels, trust_scores, a, b)
    /\ last' = [op |-> "establish_channel", result |-> TrustKey(a, b)]
    /\ nops' = nops + 1
    /\ UNCHANGED <<delivered, program, budget, successful_exchanges, failed_exchanges,
                   message_history, pending_messages, communication_patterns, nego,
                   tnVars, experiences, patterns, maxSize, history, engineVars,
                   ciVars, run>>

\* _calculate_confidence, on the trust table send_message has just initialised
Confidence(ts, a, b) == Half + RoundDiv(MeshGet(ts, TrustKey(a, b)), 2)

RequiresResponse == {"query", "negotiation"}

\* the A2AMessage send_message builds at time t
Message(ts, from, to, type, content, t) ==
    [id |-> <<"msg", t>>, from_agent |-> from, to_agent |-> to,
     message_type |-> type, content |-> content, timestamp |-> t,
     in_reply_to |-> "None", confidence |-> Confidence(ts, from, to),
     requires_response |-> type \in RequiresResponse]

\* message.to_dict(): asdict copies the content, so the copy no longer is the
\* caller's proposal object
ToDict(m) ==
    IF m.message_type = "negotiation"
    THEN [m EXCEPT !.content = [@ EXCEPT !.object = 0]]
    ELSE m

PendingOf(pm, agent) == IF agent \in DOMAIN pm THEN pm[agent] ELSE <<>>

\* a queue that takes new messages at its head
PendingWith_Prepend(pm, m) == Put(pm, m.to_agent, <<m>> \o PendingOf(pm, m.to_agent))

\* self.pending_messages[to_agent].append(message)
PendingWith(pm, m) == Put(pm, m.to_agent, Append(PendingOf(pm, m.to_agent), m))

\* the effect of send_message(from, to, type, content) at time t, on all but
\* the pending queues
SendEffect(from, to, type, content, t) ==
    LET ts == TrustWith(channels, trust_scores, from, to)
        m == Message(ts, from, to, type, content, t)
        ch == ChannelsWith(channels, from, to, t)
    IN /\ trust_scores' = ts
       /\ message_history' = Append(message_history, ToDict(m))
       /\ channels' = [ch EXCEPT ![TrustKey(from, to)] =
                          [@ EXCEPT !.message_count = @ + 1, !.last_activity = t]]
       /\ communication_patterns' =
              Append(communication_patterns,
                     [agents |-> <<from, to>>, type |-> type, timestamp |-> t,
                      confidence |-> m.confidence])

send_message(from, to, type, content) ==
    /\ program = "mesh"
    /\ nops < budget
    /\ nego = IdleFrame
    /\ \E d \in Ticks :
          /\ now' = now + d
          /\ SendEffect(from, to, type, content, now + d)
          /\ pending_messages' =
                 PendingWith(pending_messages,
                             Message(trust_scores', from, to, type, content, now + d))
          /\ last' = [op |-> "send_message",
                      result |-> Message(trust_scores', from, to, type, content, now + d)]
    /\ nops' = nops + 1
    /\ UNCHANGED <<delivered, program, budget, successful_exchanges, failed_exchanges, nego,
                   tnVars, experiences, patterns, maxSize, history, engineVars,
                   ciVars, run>>

\* a receive that leaves the queue as it found it
Drained_KeepsQueue(pm, agent) == Put(pm, agent, PendingOf(pm, agent))

\* self.pending_messages[agent_id] = []
Drained(pm, agent) == Put(pm, agent, <<>>)

receive_messages(agent) ==
    /\ program = "mesh"
    /\ nops < budget
    /\ nego = IdleFrame
    /\ pending_messages' = Drained(pending_messages, agent)
    /\ delivered' = [delivered EXCEPT ![agent] = @ + Len(PendingOf(pending_messages, agent))]
    /\ last' = [op |-> "receive_messages", agent |-> agent,
                result |-> PendingOf(pending_messages, agent)]
    /\ nops' = nops + 1
    /\ UNCHANGED <<program, budget, trust_scores, successful_exchanges,
                   failed_exchanges, channels, message_history,
                   communication_patterns, nego, tnVars, storeVars, engineVars,
                   ciVars, run>>

\* A proposal is [kind, value]: kind "none" has no "value" key, kind "number"
\* holds a number (in thousandths), kind "text" holds something else.

\* negotiate, lines 167-172: the frame of a new call
negotiate(initiator, responder, proposal, max_rounds) ==
    /\ program = "mesh"
    /\ nops < budget
    /\ nego = IdleFrame
    /\ \E d \in Ticks : now' = now + d
    /\ nego' = [pc |-> "loop", initiator |-> initiator, responder |-> responder,
                max_rounds |-> max_rounds,
                negotiation_id |-> <<"nego", now' \div MsPerSecond>>,
                rounds |-> 0, agreement_reached |-> FALSE,
                current_proposal |-> proposal, object |-> nops + 1,
                negotiation_history |-> <<>>,
                sent_before |-> Len(message_history)]
    /\ nops' = nops + 1
    /\ UNCHANGED <<delivered, program, budget, last, trust_scores, successful_exchanges,
                   failed_exchanges, channels, message_history, pending_messages,
                   communication_patterns, tnVars, experiences, patterns, maxSize,
                   history, engineVars, ciVars, run>>

\* a loop that lets one more round through
LoopCondition_OneMore(f) == f.rounds <= f.max_rounds /\ ~f.agreement_reached

\* while rounds < max_rounds and not agreement_reached
LoopCondition(f) == f.rounds < f.max_rounds /\ ~f.agreement_reached

\* acceptance_probability > 0.7, in ten-thousandths; at equality the rounding
\* of the floating-point sum decides
Acceptances(t, rounds) ==
    LET p == 3000 + t * 4 + rounds * 1000
    IN IF p > 7000 THEN {TRUE} ELSE IF p = 7000 THEN BOOLEAN ELSE {FALSE}

\* current_proposal.get("value", 1) * 0.9
Countered(pr) ==
    [kind |-> "number",
     value |-> RoundDiv((IF pr.kind = "none" THEN Scale ELSE pr.value) * 9, 10)]

\* the pending messages whose content holds the proposal object see its new value
Reproposed(pm, object, pr) ==
    [a \in DOMAIN pm |->
        [i \in 1 .. Len(pm[a]) |->
            IF pm[a][i].message_type = "negotiation" /\ pm[a][i].content.object = object
            THEN [pm[a][i] EXCEPT !.content = [@ EXCEPT !.proposal = pr]]
            ELSE pm[a][i]]]

\* a negotiation in which every proposal comes from the initiator
RoundSender_AlwaysInitiator(f) == f.initiator

\* initiator if rounds % 2 == 0 else responder
RoundSender(f) == IF f.rounds % 2 = 0 THEN f.initiator ELSE f.responder

\* responder if rounds % 2 == 0 else initiator
RoundRecipient(f) == IF f.rounds % 2 = 0 THEN f.responder ELSE f.initiator

\* one iteration of the loop of negotiate, lines 174-201
NegotiateRound ==
    /\ program = "mesh"
    /\ nego.pc = "loop"
    /\ LoopCondition(nego)
    /\  LET t == now
            r == nego.rounds
            from == RoundSender(nego)
            to == RoundRecipient(nego)
            content == [negotiation_id |-> nego.negotiation_id, round |-> r,
                        proposal |-> nego.current_proposal, object |-> nego.object]
            m == Message(TrustWith(channels, trust_scores, from, to),
                         from, to, "negotiation", content, t)
            queued == PendingWith(pending_messages, m)
            trust == MeshGet(TrustWith(channels, trust_scores, from, to),
                             TrustKey(nego.initiator, nego.responder))
            sent == Append(nego.negotiation_history, ToDict(m))
        IN /\ SendEffect(from, to, "negotiation", content, t)
           /\ \E accept \in (IF r > 0 THEN Acceptances(trust, r) ELSE {FALSE}) :
                IF r > 0 /\ ~accept /\ nego.current_proposal.kind = "text"
                THEN \* the multiplication raises TypeError
                     /\ pending_messages' = queued
                     /\ nego' = IdleFrame
                     /\ last' = [op |-> "negotiate", raised |-> TRUE,
                                 max_rounds |-> nego.max_rounds,
                                 sent |-> Len(message_history') - nego.sent_before]
                ELSE /\ pending_messages' =
                            IF r > 0 /\ ~accept
                            THEN Reproposed(queued, nego.object,
                                            Countered(nego.current_proposal))
                            ELSE queued
                     /\ nego' = [nego EXCEPT
                            !.agreement_reached = accept,
                            !.current_proposal =
                                IF r > 0 /\ ~accept THEN Countered(@) ELSE @,
                            !.negotiation_history = sent,
                            !.rounds = r + 1]
                     /\ UNCHANGED last
    /\ UNCHANGED <<delivered, program, nops, budget, successful_exchanges, failed_exchanges,
                   tnVars, storeVars, engineVars, ciVars, run>>

\* an outcome that is always booked as a success
NegotiatedTrust_AlwaysSuccess(t, agreed) == MeshNewTrust(t, TRUE, 8)

\* self.update_trust(initiator, responder, agreement_reached, 0.8)
NegotiatedTrust(t, agreed) == MeshNewTrust(t, agreed, 8)

\* the end of negotiate, lines 203-214
NegotiateReturn ==
    /\ program = "mesh"
    /\ nego.pc = "loop"
    /\ ~LoopCondition(nego)
    /\ LET k == TrustKey(nego.initiator, nego.responder)
           new == NegotiatedTrust(MeshGet(trust_scores, k), nego.agreement_reached)
       IN /\ trust_scores' = Put(trust_scores, k, new)
          /\ successful_exchanges' =
                successful_exchanges + (IF nego.agreement_reached THEN 1 ELSE 0)
          /\ failed_exchanges' =
                failed_exchanges + (IF nego.agreement_reached THEN 0 ELSE 1)
    /\ last' = [op |-> "negotiate", raised |-> FALSE,
                max_rounds |-> nego.max_rounds,
                sent |-> Len(message_history) - nego.sent_before,
                result |-> [negotiation_id |-> nego.negotiation_id,
                            success |-> nego.agreement_reached,
                            rounds |-> nego.rounds,
                            final_proposal |-> nego.current_proposal,
                            history |-> nego.negotiation_history]]
    /\ nego' = IdleFrame
    /\ UNCHANGED <<delivered, program, nops, budget, channels, message_history,
                   pending_messages, communication_patterns, tnVars, storeVars,
                   engineVars, ciVars, run>>

(* ====================================================================== *)
(* TrustNetwork                                                            *)
(* ====================================================================== *)
MinTrust == 100          \* self.min_trust = 0.1
MaxTrust == 950          \* self.max_trust = 0.95
DecayKeep == 99          \* (1 - self.decay_rate), in hundredths

Outcomes == {"success", "failure", "partial"}

\* the delta of update_trust_from_interaction (learning_rate = 0.1)
TNDelta(t, outcome, q) ==
    CASE outcome = "success" -> RoundDiv(q * (Scale - t), 100)
      [] outcome = "failure" -> 0 - RoundDiv(15 * t, 100)
      [] OTHER               -> RoundDiv(q * (Scale - t), 200)

\* np.clip(current_trust + delta, self.min_trust, self.max_trust)
TNNewTrust(t, outcome, q) ==
    Max(MinTrust, Min(MaxTrust, t + TNDelta(t, outcome, q)))

update_trust_from_interaction(a, b, outcome, q) ==
    /\ program = "trustnet"
    /\ nops < budget
    /\ LET new == TNNewTrust(trust_matrix[a][b], outcome, q)
       IN /\ trust_matrix' = [trust_matrix EXCEPT ![a][b] = new]
          /\ last' = [op |-> "update_trust_from_interaction", a |-> a, b |-> b,
                      outcome |-> outcome, quality |-> q, result |-> new]
    /\ interaction_history' = interaction_history + 1
    /\ nops' = nops + 1
    /\ UNCHANGED <<program, budget, meshVars, storeVars, engineVars, ciVars, run>>

\* 0.5 + (t - 0.5) * (1 - decay_rate)
Decayed(t) == Half + RoundDiv((t - Half) * DecayKeep, 100)

apply_trust_decay ==
    /\ program = "trustnet"
    /\ nops < budget
    /\ trust_matrix' = [a \in Agents |-> [b \in Agents |->
                           IF a = b THEN Scale ELSE Decayed(trust_matrix[a][b])]]
    /\ last' = [op |-> "apply_trust_decay"]
    /\ nops' = nops + 1
    /\ UNCHANGED <<program, budget, interaction_history, meshVars, storeVars, engineVars, ciVars, run>>

(* ====================================================================== *)
(* ExperienceStore                                                         *)
(* ====================================================================== *)
(* An Experience is [id, timestamp, taskType, agents, success, quality].   *)
(* id and taskType are strings ("" is the empty / missing string);         *)
(* timestamp is the rank of an ISO-8601 string of toISOString(), which      *)
(* localeCompare orders as the instants are ordered; agents is a sequence   *)
(* of [id, type] with the type given by its alphabetical rank               *)
(* (1 = "code", 2 = "test"); success is "true", "false", or "yes" (a        *)
(* truthy value that is not a boolean); quality is in tenths.               *)

Truthy(s) == s \in {"true", "yes"}

RECURSIVE IndexOfId(_, _)
\* position of the entry with this id in an insertion-ordered map, 0 if absent
IndexOfId(m, id) ==
    IF m = <<>> THEN 0
    ELSE IF m[Len(m)].id = id THEN Len(m)
    ELSE IndexOfId(SubSeq(m, 1, Len(m) - 1), id)

Ids(m) == {m[i].id : i \in 1 .. Len(m)}

\* Map.set: replaces the value of an existing key in place, appends a new key
MapSet(m, e) ==
    IF IndexOfId(m, e.id) = 0 THEN Append(m, e)
    ELSE [m EXCEPT ![IndexOfId(m, e.id)] = e]

\* Map.delete of the entry at position i
RemoveAt(m, i) == SubSeq(m, 1, i - 1) \o SubSeq(m, i + 1, Len(m))

\* an eviction by insertion order instead of by timestamp
OldestIndex_FirstInserted(m) == 1

\* Array.from(entries).sort(by timestamp)[0]: the sort is stable, so the first
\* entry in insertion order among those with the smallest timestamp
OldestIndex(m) ==
    CHOOSE i \in 1 .. Len(m) :
        /\ \A j \in 1 .. Len(m) : m[i].timestamp <= m[j].timestamp
        /\ \A j \in 1 .. (i - 1) : m[j].timestamp > m[i].timestamp

\* an eviction that starts one experience too late
Evict_OffByOne(m, cap) == IF Len(m) > cap THEN RemoveAt(m, OldestIndex(m)) ELSE m

\* the eviction step of save
Evict(m, cap) == IF Len(m) >= cap THEN RemoveAt(m, OldestIndex(m)) ELSE m

RECURSIVE Insert(_, _)
\* insertion of a number into a sorted sequence
Insert(s, x) ==
    IF s = <<>> THEN <<x>>
    ELSE IF x < s[1] THEN <<x>> \o s
    ELSE <<s[1]>> \o Insert(Tail(s), x)

RECURSIVE SortTypes(_)
SortTypes(s) == IF s = <<>> THEN <<>> ELSE Insert(SortTypes(Tail(s)), s[1])

\* exp.agents.map(a => a.type).sort().join("+")
Combo(e) == SortTypes([i \in 1 .. Len(e.agents) |-> e.agents[i].type])

RECURSIVE Filter(_, _)
\* the entries of a sequence whose index satisfies keep (a set of indices)
Filter(s, keep) ==
    IF s = <<>> THEN <<>>
    ELSE Filter(SubSeq(s, 1, Len(s) - 1), keep)
         \o (IF Len(s) \in keep THEN <<s[Len(s)]>> ELSE <<>>)

OfType(exps, tt) == Filter(exps, {i \in 1 .. Len(exps) : exps[i].taskType = tt})
Successful(exps) == Filter(exps, {i \in 1 .. Len(exps) : Truthy(exps[i].success)})

RECURSIVE SumQuality(_)
SumQuality(s) == IF s = <<>> THEN 0 ELSE s[1].quality + SumQuality(Tail(s))

\* the number of entries with the combination of entry i
ComboCount(s, i) == Cardinality({j \in 1 .. Len(s) : Combo(s[j]) = Combo(s[i])})

\* Array.from(agentCombos.entries()).sort((a, b) => b[1] - a[1])[0]: the most
\* frequent combination, the first inserted among equals; <<0>> stands for
\* "Insufficient data"
BestCombo(s) ==
    IF s = <<>> THEN <<0>>
    ELSE LET i == CHOOSE i \in 1 .. Len(s) :
                     /\ \A j \in 1 .. Len(s) : ComboCount(s, i) >= ComboCount(s, j)
                     /\ \A j \in 1 .. (i - 1) : ComboCount(s, j) < ComboCount(s, i)
         IN Combo(s[i])

\* extractPattern(taskType, experiences) at time t
extractPattern(tt, exps, t) ==
    LET successful == Successful(exps)
    IN [id |-> <<tt, t>>,
        taskType |-> tt,
        frequency |-> Len(successful),
        confidence |-> Min(RoundDiv(Len(successful) * Scale, Len(exps)), Scale),
        recommendation |-> BestCombo(successful),
        avgQuality |-> IF successful = <<>> THEN 0 - 1      \* NaN
                       ELSE RoundDiv(SumQuality(successful) * Scale,
                                     10 * Len(successful))]

ConfidenceThreshold == 700      \* pattern.confidence > 0.7
MinSamples == 3                 \* exps.length < 3
RecognitionPeriod == 10         \* this.experiences.size % 10 === 0

RECURSIVE TaskTypesInOrder(_)
\* the keys of taskGroups, in the order the Map received them
TaskTypesInOrder(exps) ==
    IF exps = <<>> THEN <<>>
    ELSE LET rest == TaskTypesInOrder(SubSeq(exps, 1, Len(exps) - 1))
             tt == exps[Len(exps)].taskType
         IN IF \E i \in 1 .. Len(rest) : rest[i] = tt THEN rest ELSE Append(rest, tt)

RECURSIVE RecognizeGroups_NoMinimum(_, _, _, _)
\* a recognition that also takes groups of fewer than three experiences
RecognizeGroups_NoMinimum(types, exps, pats, t) ==
    IF types = <<>> THEN pats
    ELSE LET group == OfType(exps, types[1])
             pattern == extractPattern(types[1], group, t)
             next == IF pattern.confidence > ConfidenceThreshold
                     THEN MapSet(pats, pattern) ELSE pats
         IN RecognizeGroups_NoMinimum(Tail(types), exps, next, t)

RECURSIVE RecognizeGroups(_, _, _, _)
RecognizeGroups(types, exps, pats, t) ==
    IF types = <<>> THEN pats
    ELSE LET group == OfType(exps, types[1])
             pattern == extractPattern(types[1], group, t)
             next == IF Len(group) >= MinSamples /\ pattern.confidence > ConfidenceThreshold
                     THEN MapSet(pats, pattern) ELSE pats
         IN RecognizeGroups(Tail(types), exps, next, t)

\* recognizePatterns() at time t
recognizePatterns(exps, pats, t) ==
    RecognizeGroups(TaskTypesInOrder(exps), exps, pats, t)

\* what the spec calls a valid experience (section 4.4)
SpecValid(e) == e.taskType # "" /\ e.agents # <<>> /\ e.success \in {"true", "false"}

\* the experiences stored so far, kept while every save brought a new id and a
\* larger timestamp than all before it
HistoryAfter(h, e) ==
    IF /\ h.mono
       /\ \A i \in 1 .. Len(h.saved) :
              h.saved[i].id # e.id /\ h.saved[i].timestamp < e.timestamp
    THEN [mono |-> TRUE, saved |-> Append(h.saved, e)]
    ELSE [mono |-> FALSE, saved |-> <<>>]

\* a save that checks the id after it has stored the experience
SaveEffect_CheckAfterStore(e) ==
    /\ experiences' = MapSet(Evict(experiences, maxSize), e)
    /\ UNCHANGED <<patterns, now, history>>

\* the body of save(experience); Date.now() is read only by a recognition pass
SaveEffect(e) ==
    IF e.id = ""
    THEN /\ UNCHANGED <<experiences, patterns, now, history>>       \* throw
    ELSE LET stored == MapSet(Evict(experiences, maxSize), e)
         IN /\ experiences' = stored
            /\ history' = HistoryAfter(history, e)
            /\ IF Len(stored) % RecognitionPeriod = 0
               THEN \E d \in Ticks :
                       /\ now' = now + d
                       /\ patterns' = recognizePatterns(stored, patterns, now + d)
               ELSE UNCHANGED <<patterns, now>>

SaveResult(e) == IF e.id = "" THEN "error" ELSE "ok"

\* whether save(e) ends in a recognition pass: the size of the Map after the
\* insertion is a multiple of 10
SaveRecognizes(exps, cap, e) ==
    e.id # "" /\ Len(MapSet(Evict(exps, cap), e)) % RecognitionPeriod = 0

\* the store [experiences, patterns, history] after save(e) of an experience
\* with an id, a recognition pass reading the clock at t
StoreAfter(st, cap, e, t) ==
    LET stored == MapSet(Evict(st.experiences, cap), e)
    IN [experiences |-> stored,
        patterns |-> IF Len(stored) % RecognitionPeriod = 0
                     THEN recognizePatterns(stored, st.patterns, t)
                     ELSE st.patterns,
        history |-> HistoryAfter(st.history, e)]

\* The store has finitely many states under the inputs it is driven with, so
\* its saves are explored without a budget of calls.
save(e) ==
    /\ program = "store"
    /\ SaveEffect(e)
    /\ last' = [op |-> "save", id |-> e.id, valid |-> SpecValid(e),
                result |-> SaveResult(e),
                pass |-> SaveRecognizes(experiences, maxSize, e)]
    /\ UNCHANGED <<program, nops, budget, maxSize, meshVars, tnVars, engineVars, ciVars, run>>

(* ====================================================================== *)
(* CollectiveLearningEngine                                                *)
(* ====================================================================== *)

\* trustMap.get(agent2.id) || 0.5   (0 is falsy)
EngineGet(tm, p) == IF p \in DOMAIN tm /\ tm[p] # 0 THEN tm[p] ELSE Half

\* updateTrustScores without the cap at 1
EngineNewTrust_NoCap(cur, q) == cur + 10 * q

\* the inner statement of updateTrustScores for one ordered pair
EngineNewTrust(cur, q) == Min(Scale, cur + 10 * q)     \* min(1, cur + 0.1 * quality)

RECURSIVE UpdatePairs(_, _, _)
\* the two nested loops of updateTrustScores, over the ordered pairs in loop order
UpdatePairs(tm, pairs, q) ==
    IF pairs = <<>> THEN tm
    ELSE UpdatePairs(Put(tm, pairs[1], EngineNewTrust(EngineGet(tm, pairs[1]), q)),
                     Tail(pairs), q)

RECURSIVE PairsOf(_, _, _)
\* <<agent1.id, agent2.id>> for agent1, agent2 in agents, agent1.id # agent2.id
PairsOf(agents, i, j) ==
    IF i > Len(agents) THEN <<>>
    ELSE IF j > Len(agents) THEN PairsOf(agents, i + 1, 1)
    ELSE (IF agents[i].id # agents[j].id THEN << <<agents[i].id, agents[j].id>> >> ELSE <<>>)
         \o PairsOf(agents, i, j + 1)

updateTrustScores(tm, e) ==
    IF ~Truthy(e.success) THEN tm
    ELSE UpdatePairs(tm, PairsOf(e.agents, 1, 1), e.quality)

learn(e) ==
    /\ program = "engine"
    /\ nops < budget
    /\ SaveEffect(e)
    /\ trustMatrix' = IF e.id = "" THEN trustMatrix ELSE updateTrustScores(trustMatrix, e)
    /\ last' = [op |-> "learn", exp |-> e, result |-> SaveResult(e)]
    /\ nops' = nops + 1
    /\ UNCHANGED <<program, budget, maxSize, meshVars, tnVars, ciVars, run>>

(* ====================================================================== *)
(* CollectiveIntelligence                                                  *)
(* ====================================================================== *)
(* An ExecutionRecord is [taskType, agents (the agents' types), messages    *)
(* (their number), avgInterval, tools, errors, success, duration,           *)
(* expectedDuration, complexity, innovative].  A Pattern is [id, type,      *)
(* name, context, frequency, successRate]; its id is <<prefix, Date.now()>>.*)
(* A Strategy is [id, fitness, generation, parameter].  Calls are modelled  *)
(* one at a time.                                                           *)

NewPattern(prefix, t, type, name, context, success) ==
    [id |-> <<prefix, t>>, type |-> type, name |-> name, context |-> context,
     frequency |-> 1, successRate |-> IF success THEN Scale ELSE 0]

\* extractPatterns(execution), every Date.now() of the call reading t
extractPatterns(x, t) ==
    (IF Len(x.agents) > 1
     THEN <<NewPattern("collab", t, "collaboration", x.agents,
                       <<x.taskType, x.complexity, x.duration>>, x.success)>>
     ELSE <<>>)
    \o (IF x.tools
        THEN <<NewPattern("tools", t, "tools", <<"tool-usage-pattern">>,
                          <<x.taskType>>, x.success)>>
        ELSE <<>>)
    \o (IF x.messages >= 2
        THEN <<NewPattern("timing", t, "timing", <<"message-timing-pattern">>,
                          <<x.avgInterval, x.taskType>>, x.success)>>
        ELSE <<>>)
    \o (IF x.errors /\ x.success
        THEN <<NewPattern("recovery", t, "recovery", <<"error-recovery-success">>,
                          <<x.taskType>>, TRUE)>>
        ELSE <<>>)

patternsAreSimilar(p1, p2) ==
    p1.type = p2.type /\ p1.name = p2.name /\ p1.context = p2.context

isNovelPattern(lp, p) == \A i \in 1 .. Len(lp) : ~patternsAreSimilar(lp[i], p)

\* reinforcePattern(patternId, success): weight 0.1
reinforcePattern(lp, id, success) ==
    IF IndexOfId(lp, id) = 0 THEN lp
    ELSE [lp EXCEPT ![IndexOfId(lp, id)] =
            [@ EXCEPT !.frequency = @ + 1,
                      !.successRate = RoundDiv(@ * 9 + (IF success THEN Scale ELSE 0), 10)]]

RECURSIVE LearnPatterns(_, _, _)
\* step 1 of learnFromExecution
LearnPatterns(lp, found, success) ==
    IF found = <<>> THEN lp
    ELSE LearnPatterns(IF isNovelPattern(lp, found[1])
                       THEN MapSet(lp, found[1])
                       ELSE reinforcePattern(lp, found[1].id, success),
                       Tail(found), success)

\* evolveStrategies(execution): its four helpers (evolveTeamStrategy, ...) are
\* not part of the sources; the specification gives them no behaviour, so they
\* are taken to return no strategy
evolveStrategies(x) == <<>>

\* calculateFitnessImpact(execution)
calculateFitnessImpact(x) ==
    (IF x.success THEN 10 ELSE 0 - 5)
    + (IF x.duration * 10 < x.expectedDuration * 8 THEN 5 ELSE 0)
    + (IF x.innovative THEN 10 ELSE 0)

calculateVariance(values) == 0      \* never evaluated: recentFitnessScores stays empty

hasfitnessPlateaued(gm) ==
    IF Len(gm.recentFitnessScores) < 20 THEN FALSE
    ELSE calculateVariance(gm.recentFitnessScores) < 1

shouldEvolve(gm) == gm.totalExecutions % 100 = 0 \/ hasfitnessPlateaued(gm)

DeprecateBelow == 300       \* pattern.successRate < 0.3
DeprecateAbove == 5         \* pattern.frequency > 5

\* a deprecation that also takes patterns seen exactly five times
IsWeak_AtLeastFive(pt) == pt.successRate < DeprecateBelow /\ pt.frequency >= DeprecateAbove

\* the condition of deprecateWeakPatterns
IsWeak(pt) == pt.successRate < DeprecateBelow /\ pt.frequency > DeprecateAbove

\* a deprecation that reports the weak patterns and deletes none
KeptPatterns_NoDelete(lp) == Filter(lp, {i \in 1 .. Len(lp) : TRUE})

\* what deprecateWeakPatterns leaves in the table
KeptPatterns(lp) == Filter(lp, {i \in 1 .. Len(lp) : ~IsWeak(lp[i])})

\* a deprecation that deletes the weak patterns and reports none
DeprecatedPatterns_Unreported(lp) == <<>>

\* what deprecateWeakPatterns returns
DeprecatedPatterns(lp) == Filter(lp, {i \in 1 .. Len(lp) : IsWeak(lp[i])})

\* Math.ceil(this.learnedPatterns.size * 0.8)
SelectedCount(lp) == (Len(lp) * 8 + 9) \div 10

SelectAbove == 600          \* p.successRate > 0.6

\* one step of the stable sort by successRate, highest first
InsertBySuccess(sorted, pt) ==
    LET ahead == {i \in 1 .. Len(sorted) : sorted[i].successRate >= pt.successRate}
        k == IF ahead = {} THEN 0 ELSE CHOOSE i \in ahead : \A j \in ahead : j <= i
    IN SubSeq(sorted, 1, k) \o <<pt>> \o SubSeq(sorted, k + 1, Len(sorted))

RECURSIVE SortBySuccess(_)
SortBySuccess(seq) ==
    IF seq = <<>> THEN <<>>
    ELSE InsertBySuccess(SortBySuccess(SubSeq(seq, 1, Len(seq) - 1)), seq[Len(seq)])

\* selectBestPatterns(): triggerEvolution keeps the result in a local constant
\* (survivingPatterns) and does not use it
selectBestPatterns(lp) ==
    LET ranked == SortBySuccess(Filter(lp, {i \in 1 .. Len(lp) :
                                              lp[i].successRate > SelectAbove}))
    IN SubSeq(ranked, 1, Min(Len(ranked), SelectedCount(lp)))

Factors == {80, 119}            \* 0.8 + Math.random() * 0.4, in hundredths

\* the ways mutateStrategies can go: per strategy 0 (not mutated) or a factor
MutationChoices(st) == [1 .. Len(st) -> {0} \cup Factors]

\* mutateStrategy multiplies the parameters object it shares with the stored
\* strategy, so the stored strategy changes
MutatedPopulation(st, mu) ==
    [i \in 1 .. Len(st) |->
        IF mu[i] = 0 THEN st[i]
        ELSE [st[i] EXCEPT !.parameter = RoundDiv(@ * mu[i], 100)]]

\* a cycle that reports no mutation
Mutations_Unreported(st, mu, t) == <<>>

\* the strategies mutateStrategies returns
Mutations(st, mu, t) ==
    LET all == MutatedPopulation(st, mu)
    IN Filter([i \in 1 .. Len(st) |-> [all[i] EXCEPT !.id = <<all[i].id, "mut", t>>]],
              {i \in 1 .. Len(st) : mu[i] # 0})

\* one step of the stable sort by (fitness || 0), highest first
InsertByFitness(sorted, sg) ==
    LET ahead == {i \in 1 .. Len(sorted) : sorted[i].fitness >= sg.fitness}
        k == IF ahead = {} THEN 0 ELSE CHOOSE i \in ahead : \A j \in ahead : j <= i
    IN SubSeq(sorted, 1, k) \o <<sg>> \o SubSeq(sorted, k + 1, Len(sorted))

RECURSIVE SortByFitness(_)
SortByFitness(seq) ==
    IF seq = <<>> THEN <<>>
    ELSE InsertByFitness(SortByFitness(SubSeq(seq, 1, Len(seq) - 1)), seq[Len(seq)])

BreedingPool == 4           \* .slice(0, 4)

\* crossBreed(parent1, parent2) at time t in generation gen; the name
\* `Hybrid: <name1> x <name2>` is kept as the pair of the parents' ids
crossBreed(parent1, parent2, t, gen) ==
    [id |-> <<"offspring", t>>,
     name |-> <<parent1.id, parent2.id>>,
     parameter |-> RoundDiv(parent1.parameter + parent2.parameter, 2),
     fitness |-> Half,
     generation |-> gen + 1]

\* crossBreedStrategies() on population st: triggerEvolution keeps the result
\* in a local constant (offspring) and does not store it
crossBreedStrategies(st, t, gen) ==
    LET ranked == SortByFitness(st)
        parents == SubSeq(ranked, 1, Min(Len(ranked), BreedingPool))
    IN [i \in 1 .. Len(parents) - 1 |-> crossBreed(parents[i], parents[i + 1], t, gen)]

\* the body of triggerEvolution() on pattern table lp
EvolutionEffect(lp, mu, t) ==
    /\ learnedPatterns' = KeptPatterns(lp)
    /\ emergentStrategies' = MutatedPopulation(emergentStrategies, mu)
    /\ evolutionGeneration' = evolutionGeneration + 1
    /\ globalMetrics' = [globalMetrics EXCEPT !.recentFitnessScores = <<>>]

\* a result that reports the generation the cycle started from as the new one
EvolutionResult_StaleGeneration(lp, mu, t) ==
    [previousGeneration |-> evolutionGeneration,
     newGeneration |-> evolutionGeneration,
     mutations |-> Mutations(emergentStrategies, mu, t),
     deprecated |-> DeprecatedPatterns(lp)]

\* the EvolutionResult triggerEvolution returns
EvolutionResult(lp, mu, t) ==
    [previousGeneration |-> evolutionGeneration,
     newGeneration |-> evolutionGeneration + 1,
     mutations |-> Mutations(emergentStrategies, mu, t),
     deprecated |-> DeprecatedPatterns(lp)]

triggerEvolution ==
    /\ program = "collective"
    /\ nops < budget
    /\ \E d \in Ticks, mu \in MutationChoices(emergentStrategies) :
          /\ now' = now + d
          /\ EvolutionEffect(learnedPatterns, mu, now + d)
          /\ last' = [op |-> "triggerEvolution", evolved |-> TRUE,
                      table |-> learnedPatterns,
                      surviving |-> selectBestPatterns(learnedPatterns),
                      offspring |-> crossBreedStrategies(
                                        MutatedPopulation(emergentStrategies, mu),
                                        now + d, evolutionGeneration),
                      result |-> EvolutionResult(learnedPatterns, mu, now + d)]
    /\ nops' = nops + 1
    /\ UNCHANGED <<program, budget, fitnessScore, experiences, patterns, maxSize,
                   history, meshVars, tnVars, engineVars, run, cycles>>

\* a fitness update that adds the impact without clipping
ClampedFitness_Unclipped(f, impact) == f + impact

\* this.fitnessScore = Math.max(0, Math.min(1, this.fitnessScore + fitnessImpact))
ClampedFitness(f, impact) == Max(0, Min(Scale, f + impact))

learnFromExecution(x) ==
    /\ program = "collective"
    /\ nops < budget
    /\ \E d \in Ticks, mu \in MutationChoices(emergentStrategies) :
          LET t == now + d
              found == extractPatterns(x, t)
              learned == LearnPatterns(learnedPatterns, found, x.success)
              impact == calculateFitnessImpact(x)
          IN /\ now' = t
             /\ fitnessScore' = ClampedFitness(fitnessScore, impact)
             /\ IF shouldEvolve(globalMetrics)
                THEN /\ EvolutionEffect(learned, mu, t)
                     /\ last' = [op |-> "learnFromExecution", evolved |-> TRUE,
                                 execution |-> x,
                                 fitnessImpact |-> impact, table |-> learned,
                                 surviving |-> selectBestPatterns(learned),
                                 result |-> EvolutionResult(learned, mu, t)]
                ELSE /\ learnedPatterns' = learned
                     /\ mu = [i \in 1 .. Len(emergentStrategies) |-> 0]
                     /\ last' = [op |-> "learnFromExecution", evolved |-> FALSE,
                                 execution |-> x, fitnessImpact |-> impact]
                     /\ UNCHANGED <<emergentStrategies, evolutionGeneration, globalMetrics>>
    /\ nops' = nops + 1
    /\ UNCHANGED <<program, budget, experiences, patterns, maxSize, history,
                   meshVars, tnVars, engineVars, run, cycles>>

\* mergePatterns(existing, incoming)
mergePatterns(existing, incoming) ==
    [existing EXCEPT
        !.frequency = existing.frequency + incoming.frequency,
        !.successRate = RoundDiv(existing.successRate * existing.frequency
                                 + incoming.successRate * incoming.frequency,
                                 existing.frequency + incoming.frequency)]

RECURSIVE ImportPatterns(_, _)
ImportPatterns(lp, incoming) ==
    IF incoming = <<>> THEN lp
    ELSE ImportPatterns(
            IF IndexOfId(lp, incoming[1].id) # 0
            THEN MapSet(lp, mergePatterns(lp[IndexOfId(lp, incoming[1].id)], incoming[1]))
            ELSE MapSet(lp, incoming[1]),
            Tail(incoming))

RECURSIVE ImportStrategies(_, _)
ImportStrategies(st, incoming) ==
    IF incoming = <<>> THEN st
    ELSE ImportStrategies(MapSet(st, incoming[1]), Tail(incoming))

\* an import that always takes the imported generation
ImportedGeneration_Overwrite(cur, g) == g

\* if (knowledge.generation > this.evolutionGeneration) ...
ImportedGeneration(cur, g) == IF g > cur THEN g ELSE cur

importKnowledge(k) ==
    /\ program = "collective"
    /\ nops < budget
    /\ learnedPatterns' = ImportPatterns(learnedPatterns, k.patterns)
    /\ emergentStrategies' = ImportStrategies(emergentStrategies, k.strategies)
    /\ evolutionGeneration' = ImportedGeneration(evolutionGeneration, k.generation)
    /\ last' = [op |-> "importKnowledge", evolved |-> FALSE, generation |-> k.generation]
    /\ nops' = nops + 1
    /\ UNCHANGED <<program, budget, fitnessScore, globalMetrics, storeVars,
                   meshVars, tnVars, engineVars, run, cycles>>

\* the CollectiveKnowledge exportKnowledge() returns at time t; its insights
\* are derived from the patterns and are read by no import
Knowledge(t) ==
    [generation |-> evolutionGeneration,
     fitnessScore |-> fitnessScore,
     patterns |-> learnedPatterns,
     strategies |-> emergentStrategies,
     metrics |-> globalMetrics,
     exportedAt |-> t]

exportKnowledge ==
    /\ program = "collective"
    /\ nops < budget
    /\ \E d \in Ticks :
          /\ now' = now + d
          /\ last' = [op |-> "exportKnowledge", evolved |-> FALSE,
                      result |-> Knowledge(now + d)]
    /\ nops' = nops + 1
    /\ UNCHANGED <<program, budget, ciVars, experiences, patterns, maxSize, history,
                   meshVars, tnVars, engineVars, run>>

\* a new system after importKnowledge(k): [generation, patterns, strategies]
\* as the import leaves the fields of a new CollectiveIntelligence, and the
\* trust ledger of a new system, which the import does not write
ImportedSystem(k) ==
    [generation |-> ImportedGeneration(1, k.generation),
     patterns |-> ImportPatterns(<<>>, k.patterns),
     strategies |-> ImportStrategies(<<>>, k.strategies),
     trust |-> EmptyMap]

(* ---------------------------------------------------------------------- *)
(* predictOptimalTeam: a task description is a set of lower-case words and  *)
(* a length in characters; a team is a sequence of agent configurations     *)
(* ---------------------------------------------------------------------- *)
DomainVocabulary == <<"code", "test", "security", "performance", "review", "design">>

\* identifyDomain(description): the first domain of the list the description holds
identifyDomain(d) ==
    LET hits == {i \in 1 .. Len(DomainVocabulary) : DomainVocabulary[i] \in d.words}
    IN IF hits = {} THEN "general"
       ELSE DomainVocabulary[CHOOSE i \in hits : \A j \in hits : i <= j]

\* estimateComplexity(description): Math.min(1, description.length / 500)
estimateComplexity(d) == Min(Scale, RoundDiv(d.length * Scale, 5 * 100))

\* extractTaskFeatures(description), the features the prediction reads
extractTaskFeatures(d) ==
    [keywords |-> d.words, complexity |-> estimateComplexity(d),
     domain |-> identifyDomain(d)]

\* findMatchingPatterns(features)
findMatchingPatterns(lp, f) ==
    SortBySuccess(Filter(lp, {i \in 1 .. Len(lp) :
                                \/ lp[i].context.domain = f.domain
                                \/ lp[i].context.complexity = f.complexity}))

RECURSIVE AgentTypes(_, _)
\* the Set of agent types of a message sequence, in insertion order
AgentTypes(steps, seen) ==
    IF steps = <<>> THEN seen
    ELSE LET has(t) == \E i \in 1 .. Len(seen) : seen[i] = t
             withFrom == IF steps[1].from # "" /\ ~has(steps[1].from)
                         THEN Append(seen, steps[1].from) ELSE seen
             hasNow(t) == \E i \in 1 .. Len(withFrom) : withFrom[i] = t
             withTo == IF steps[1].to # "" /\ ~hasNow(steps[1].to)
                       THEN Append(withFrom, steps[1].to) ELSE withFrom
         IN AgentTypes(Tail(steps), withTo)

\* extractAgentsFromPattern(pattern)
extractAgentsFromPattern(pt) ==
    LET types == AgentTypes(pt.sequence, <<>>)
    IN [i \in 1 .. Len(types) |-> [type |-> types[i], role |-> "collaborator"]]

RecommendAbove == 700       \* pattern.successRate > 0.7

\* step 3 of predictOptimalTeam: the first matching collaboration pattern
\* with successRate > 0.7, 0 if there is none
PrimaryPattern(mp) ==
    LET ok == {i \in 1 .. Len(mp) :
                  mp[i].type = "collaboration" /\ mp[i].successRate > RecommendAbove}
    IN IF ok = {} THEN 0 ELSE CHOOSE i \in ok : \A j \in ok : i <= j

\* generateAlternativeTeams(features, patterns): up to 3 alternatives
generateAlternativeTeams(mp) ==
    LET first == SubSeq(mp, 1, Min(3, Len(mp)))
        teams == [i \in 1 .. Len(first) |->
                     [agents |-> extractAgentsFromPattern(first[i]),
                      confidence |-> first[i].successRate]]
    IN Filter(teams, {i \in 1 .. Len(teams) : teams[i].agents # <<>>})

RECURSIVE applyConstraints_TakeLast(_, _)
\* constraints applied by keeping the last agents of the team
applyConstraints_TakeLast(agents, constraints) ==
    IF constraints = <<>> THEN agents
    ELSE applyConstraints_TakeLast(
            IF constraints[1].type = "max_team_size" /\ Len(agents) > constraints[1].value
            THEN SubSeq(agents, Len(agents) - constraints[1].value + 1, Len(agents))
            ELSE agents,
            Tail(constraints))

RECURSIVE applyConstraints(_, _)
\* applyConstraints(agents, constraints): agents.slice(0, constraint.value)
\* for each max_team_size constraint the team exceeds, values being >= 0
applyConstraints(agents, constraints) ==
    IF constraints = <<>> THEN agents
    ELSE applyConstraints(
            IF constraints[1].type = "max_team_size" /\ Len(agents) > constraints[1].value
            THEN SubSeq(agents, 1, constraints[1].value)
            ELSE agents,
            Tail(constraints))

\* the prediction before step 5
Unconstrained(d) ==
    LET mp == findMatchingPatterns(learnedPatterns, extractTaskFeatures(d))
        k == PrimaryPattern(mp)
    IN [recommendedAgents |-> IF k = 0 THEN <<>> ELSE extractAgentsFromPattern(mp[k]),
        confidence |-> IF k = 0 THEN 0 ELSE mp[k].successRate,
        reasoning |-> IF k = 0 THEN <<>> ELSE <<mp[k].frequency>>,
        alternativeTeams |-> generateAlternativeTeams(mp)]

predictOptimalTeam(d, constraints) ==
    /\ program = "collective"
    /\ nops < budget
    /\ last' = [op |-> "predictOptimalTeam", evolved |-> FALSE,
                constraints |-> constraints,
                unconstrained |-> Unconstrained(d).recommendedAgents,
                result |-> [Unconstrained(d) EXCEPT
                               !.recommendedAgents = applyConstraints(@, constraints)]]
    /\ nops' = nops + 1
    /\ UNCHANGED <<program, budget, ciVars, storeVars, meshVars, tnVars, engineVars, run>>

(* ====================================================================== *)
(* Twin experiment: n failures against n successes from neutral trust      *)
(* ====================================================================== *)
Ledgers == {"mesh", "trustnet"}

LedgerSuccess(l, t, q) ==
    IF l = "mesh" THEN MeshNewTrust(t, TRUE, q) ELSE TNNewTrust(t, "success", q)
LedgerFailure(l, t, q) ==
    IF l = "mesh" THEN MeshNewTrust(t, FALSE, q) ELSE TNNewTrust(t, "failure", q)

RunOff == [ledger |-> "none", q |-> 0, n |-> 0, up |-> Half, down |-> Half]

TwinStep ==
    /\ program = "twin"
    /\ run.n < MaxRun
    /\ run' = [run EXCEPT !.n = @ + 1,
                          !.up = LedgerSuccess(run.ledger, @, run.q),
                          !.down = LedgerFailure(run.ledger, @, run.q)]
    /\ UNCHANGED <<ctlVars, meshVars, tnVars, storeVars, engineVars, ciVars>>

(* ====================================================================== *)
(* Initial states                                                          *)
(* ====================================================================== *)
\* no channel, no message, no call in progress
MeshQuiet ==
    /\ channels = EmptyMap
    /\ message_history = <<>>
    /\ pending_messages = EmptyMap
    /\ communication_patterns = <<>>
    /\ nego = IdleFrame
    /\ delivered = [a \in Agents |-> 0]

MeshFresh ==
    /\ trust_scores = EmptyMap
    /\ successful_exchanges = 0
    /\ failed_exchanges = 0
    /\ MeshQuiet

\* TrustNetwork.__init__: 0.5 everywhere, 1.0 on the diagonal
FreshMatrix == [a \in Agents |-> [b \in Agents |-> IF a = b THEN Scale ELSE Half]]

TNFresh ==
    /\ trust_matrix = FreshMatrix
    /\ interaction_history = 0

NoHistory == [mono |-> TRUE, saved |-> <<>>]

StoreFresh ==
    /\ experiences = <<>>
    /\ patterns = <<>>
    /\ now = 0
    /\ history = NoHistory

EngineFresh == trustMatrix = EmptyMap

FreshMetrics == [totalExecutions |-> 0, recentFitnessScores |-> <<>>]

\* the two triggerEvolution calls whose overlap the model follows
CycleIds == {1, 2}

IdleCycle == [pc |-> "idle"]

NoCycles == [c \in CycleIds |-> IdleCycle]

CIFresh ==
    /\ evolutionGeneration = 1
    /\ fitnessScore = Half
    /\ learnedPatterns = <<>>
    /\ emergentStrategies = <<>>
    /\ globalMetrics = FreshMetrics
    /\ cycles = NoCycles

RECURSIVE MeshAfter(_, _, _)
\* the mesh score of a pair after n updates of the same kind, quality 1.0
MeshAfter(t, success, n) ==
    IF n = 0 THEN t
    ELSE CHOOSE v \in {MeshNewTrust(p, success, 10) : p \in {MeshAfter(t, success, n - 1)}} : TRUE

RECURSIVE TNAfter(_, _, _)
TNAfter(t, outcome, n) ==
    IF n = 0 THEN t
    ELSE CHOOSE v \in {TNNewTrust(p, outcome, 10) : p \in {TNAfter(t, outcome, n - 1)}} : TRUE

\* the experience the engine is warmed up with
WarmExp == [id |-> "e1", timestamp |-> 1, taskType |-> "review",
            agents |-> <<[id |-> 1, type |-> 1], [id |-> 2, type |-> 2]>>,
            success |-> "true", quality |-> 10]

RECURSIVE EngineAfter(_, _)
EngineAfter(tm, n) ==
    IF n = 0 THEN tm
    ELSE CHOOSE v \in {updateTrustScores(p, WarmExp) : p \in {EngineAfter(tm, n - 1)}} : TRUE

DefaultMaxSize == 10000       \* private maxSize: number = 10000

\* A trust ledger as n calls of one kind (quality 1.0) on the pair (1,2) leave it,
\* n = 0 being the state after construction
InitTrust ==
    /\ program \in {"mesh", "trustnet", "engine"}
    /\ nops = 0
    /\ budget = MaxTrustOps
    /\ last = [op |-> "none"]
    /\ run = RunOff
    /\ maxSize = DefaultMaxSize
    /\ \E warm \in 0 .. MaxWarm, good \in BOOLEAN :
        /\ IF program = "mesh" /\ warm > 0
           THEN /\ trust_scores = Put(EmptyMap, <<1, 2>>, MeshAfter(Half, good, warm))
                /\ successful_exchanges = (IF good THEN warm ELSE 0)
                /\ failed_exchanges = (IF good THEN 0 ELSE warm)
                /\ MeshQuiet
           ELSE MeshFresh
        /\ IF program = "trustnet"
           THEN /\ trust_matrix = [FreshMatrix EXCEPT ![1][2] =
                        TNAfter(Half, IF good THEN "success" ELSE "failure", warm)]
                /\ interaction_history = warm
           ELSE TNFresh
        /\ IF program = "engine" /\ warm > 0 /\ good
           THEN /\ trustMatrix = EngineAfter(EmptyMap, warm)
                /\ experiences = <<WarmExp>>
                /\ patterns = <<>>
                /\ now = 0
                /\ history = IF warm = 1 THEN [mono |-> TRUE, saved |-> <<WarmExp>>]
                                         ELSE [mono |-> FALSE, saved |-> <<>>]
           ELSE EngineFresh /\ StoreFresh
    /\ CIFresh

\* the experiences the engine is driven with in the trust specification
TrustExps ==
    {[WarmExp EXCEPT !.agents = ag, !.success = su, !.quality = q] :
        ag \in {WarmExp.agents, <<WarmExp.agents[1]>>},
        su \in {"true", "false"}, q \in Qualities}

NextTrust ==
    \/ \E a, b \in Agents, success \in BOOLEAN, q \in Qualities :
           update_trust(a, b, success, q)
    \/ \E a, b \in Agents, o \in Outcomes, q \in Qualities :
           update_trust_from_interaction(a, b, o, q)
    \/ apply_trust_decay
    \/ \E e \in TrustExps : learn(e)

SpecTrust == InitTrust /\ [][NextTrust]_vars

InitTwin ==
    /\ program = "twin"
    /\ nops = 0
    /\ budget = 0
    /\ last = [op |-> "none"]
    /\ run \in {[ledger |-> l, q |-> q, n |-> 0, up |-> Half, down |-> Half] :
                    l \in Ledgers, q \in Qualities}
    /\ maxSize = DefaultMaxSize
    /\ MeshFresh /\ TNFresh /\ StoreFresh /\ EngineFresh /\ CIFresh

SpecTwin == InitTwin /\ [][TwinStep]_vars

(* ---------------------------------------------------------------------- *)
(* ExperienceStore driven directly                                         *)
(* ---------------------------------------------------------------------- *)
IdPool == <<"e1", "e2", "e3", "e4", "e5", "e6">>
StoreIds == {""} \cup {IdPool[i] : i \in 1 .. (Capacity + 1)}
Timestamps == 1 .. (Capacity + 1)

\* the contents an experience is saved with: a valid one, a valid failure, and
\* one for each way the spec calls an experience invalid
ValidContent == [taskType |-> "review", agents |-> WarmExp.agents, success |-> "true"]
OtherContents ==
    {[taskType |-> "review", agents |-> WarmExp.agents, success |-> "false"],
     [taskType |-> "", agents |-> WarmExp.agents, success |-> "true"],
     [taskType |-> "review", agents |-> <<>>, success |-> "true"],
     [taskType |-> "review", agents |-> WarmExp.agents, success |-> "yes"]}

Experience(i, ts, c) ==
    [id |-> i, timestamp |-> ts, taskType |-> c.taskType, agents |-> c.agents,
     success |-> c.success, quality |-> 10]

\* every id with every timestamp for the valid content, every id with the
\* first timestamp for the other contents
StoreExps ==
    {Experience(i, ts, ValidContent) : i \in StoreIds, ts \in Timestamps}
    \cup {Experience(i, 1, c) : i \in StoreIds, c \in OtherContents}

InitStore ==
    /\ program = "store"
    /\ nops = 0
    /\ budget = 0
    /\ last = [op |-> "none"]
    /\ run = RunOff
    /\ maxSize = Capacity
    /\ MeshFresh /\ TNFresh /\ StoreFresh /\ EngineFresh /\ CIFresh

NextStore == \E e \in StoreExps : save(e)

SpecStore == InitStore /\ [][NextStore]_vars

(* ---------------------------------------------------------------------- *)
(* ExperienceStore around its recognition passes                           *)
(* ---------------------------------------------------------------------- *)
ExpIds ==
    <<"exp-0", "exp-1", "exp-2", "exp-3", "exp-4", "exp-5", "exp-6", "exp-7",
      "exp-8", "exp-9", "exp-10", "exp-11", "exp-12", "exp-13", "exp-14",
      "exp-15", "exp-16", "exp-17", "exp-18", "exp-19", "exp-20", "exp-21">>

\* the i-th experience of a run of similar successful ones
SimilarExp(i) == Experience(ExpIds[i], i, ValidContent)

RECURSIVE SimilarSaved(_, _)
\* the store after save(SimilarExp(1)), ..., save(SimilarExp(n)) on a new
\* store of capacity cap, all within the first tick of the clock
SimilarSaved(n, cap) ==
    IF n = 0 THEN [experiences |-> <<>>, patterns |-> <<>>, history |-> NoHistory]
    ELSE CHOOSE v \in {StoreAfter(st, cap, SimilarExp(n), 0) :
                          st \in {SimilarSaved(n - 1, cap)}} : TRUE

\* one save short of the first and of the second recognition pass
WarmSizes == {RecognitionPeriod - 1, 2 * RecognitionPeriod - 1}

\* the default capacity, and one the warm stores fill
Capacities == {RecognitionPeriod, DefaultMaxSize}

\* the next two experiences of the run, each succeeded or failed
NextExps ==
    {[SimilarExp(i) EXCEPT !.success = su] :
        i \in (2 * RecognitionPeriod) .. (2 * RecognitionPeriod + 1),
        su \in {"true", "false"}}

InitRecognition ==
    /\ program = "store"
    /\ nops = 0
    /\ budget = 0
    /\ last = [op |-> "none"]
    /\ run = RunOff
    /\ maxSize \in Capacities
    /\ now = 0
    /\ \E n \in WarmSizes :
          /\ experiences = SimilarSaved(n, maxSize).experiences
          /\ patterns = SimilarSaved(n, maxSize).patterns
          /\ history = SimilarSaved(n, maxSize).history
    /\ MeshFresh /\ TNFresh /\ EngineFresh /\ CIFresh

NextRecognition == \E e \in NextExps : save(e)

SpecRecognition == InitRecognition /\ [][NextRecognition]_vars

(* ---------------------------------------------------------------------- *)
(* ExperienceStore at its first recognition pass, over mixed experiences   *)
(* ---------------------------------------------------------------------- *)
MaxOtherType == 2           \* experiences of a second task type in the store
MaxFailures == 3            \* failed experiences in the store

\* the i-th of nine experiences: r of task type "test", then f failed
\* reviews, then successful reviews
MixedExp(i, r, f) ==
    Experience(ExpIds[i], i,
               [taskType |-> IF i <= r THEN "test" ELSE "review",
                agents |-> WarmExp.agents,
                success |-> IF i > r /\ i <= r + f THEN "false" ELSE "true"])

RECURSIVE MixedSaved(_, _, _)
\* the store after save(MixedExp(1, r, f)), ..., save(MixedExp(n, r, f))
MixedSaved(n, r, f) ==
    IF n = 0 THEN [experiences |-> <<>>, patterns |-> <<>>, history |-> NoHistory]
    ELSE CHOOSE v \in {StoreAfter(st, DefaultMaxSize, MixedExp(n, r, f), 0) :
                          st \in {MixedSaved(n - 1, r, f)}} : TRUE

\* the tenth experience: a review that succeeded or failed, or a test
MixedNext ==
    {Experience(ExpIds[RecognitionPeriod], RecognitionPeriod,
                [taskType |-> c[1], agents |-> WarmExp.agents, success |-> c[2]]) :
        c \in {<<"review", "true">>, <<"review", "false">>, <<"test", "true">>}}

InitMixed ==
    /\ program = "store"
    /\ nops = 0
    /\ budget = 0
    /\ last = [op |-> "none"]
    /\ run = RunOff
    /\ maxSize = DefaultMaxSize
    /\ now = 0
    /\ \E r \in 0 .. MaxOtherType, f \in 0 .. MaxFailures :
          LET st == MixedSaved(RecognitionPeriod - 1, r, f)
          IN /\ experiences = st.experiences
             /\ patterns = st.patterns
             /\ history = st.history
    /\ MeshFresh /\ TNFresh /\ EngineFresh /\ CIFresh

NextMixed == \E e \in MixedNext : save(e)

SpecMixed == InitMixed /\ [][NextMixed]_vars

(* ---------------------------------------------------------------------- *)
(* CollectiveIntelligence driven by executions, evolutions and imports     *)
(* ---------------------------------------------------------------------- *)
\* the two executions of testCollectiveIntelligence, and two variants
ReviewExecution ==
    [taskType |-> "code-review", agents |-> <<"code", "review">>, messages |-> 2,
     avgInterval |-> 1000, tools |-> FALSE, errors |-> FALSE, success |-> TRUE,
     duration |-> 3000, expectedDuration |-> 4000, complexity |-> 7,
     innovative |-> FALSE]

ScanExecution ==
    [taskType |-> "security-scan", agents |-> <<"security">>, messages |-> 0,
     avgInterval |-> 0, tools |-> FALSE, errors |-> TRUE, success |-> FALSE,
     duration |-> 5000, expectedDuration |-> 3000, complexity |-> 8,
     innovative |-> FALSE]

Executions ==
    {ReviewExecution, ScanExecution,
     [ReviewExecution EXCEPT !.success = FALSE],
     [ReviewExecution EXCEPT !.tools = TRUE, !.errors = TRUE, !.innovative = TRUE]}

ImportedPattern(id, name, context, f, sr) ==
    [id |-> id, type |-> "collaboration", name |-> name, context |-> context,
     frequency |-> f, successRate |-> sr]

ImportedStrategy(id, fit, gen, par) ==
    [id |-> id, fitness |-> fit, generation |-> gen, parameter |-> par]

\* knowledge documents: a failing pattern seen five times, the collaboration
\* pattern of ReviewExecution under the id a local extraction at time 1 gives
\* it, and a newer generation that brings a strategy
Documents ==
    {[generation |-> 0,
      patterns |-> <<ImportedPattern(<<"ext", 1>>, <<"code", "test">>,
                                     <<"build", 5, 1000>>, 5, 200)>>,
      strategies |-> <<>>],
     [generation |-> 1,
      patterns |-> <<ImportedPattern(<<"collab", 1>>, <<"code", "review">>,
                                     <<"code-review", 7, 3000>>, 3, 250)>>,
      strategies |-> <<>>],
     [generation |-> 3,
      patterns |-> <<>>,
      strategies |-> <<ImportedStrategy("s1", 600, 2, 1000)>>]}

InitCI ==
    /\ program = "collective"
    /\ nops = 0
    /\ budget = MaxOps
    /\ last = [op |-> "none"]
    /\ run = RunOff
    /\ maxSize = DefaultMaxSize
    /\ MeshFresh /\ TNFresh /\ StoreFresh /\ EngineFresh /\ CIFresh

NextCI ==
    \/ \E x \in Executions : learnFromExecution(x)
    \/ triggerEvolution
    \/ \E k \in Documents : importKnowledge(k)

SpecCI == InitCI /\ [][NextCI]_vars

(* ---------------------------------------------------------------------- *)
(* CollectiveIntelligence after long runs of executions                    *)
(* ---------------------------------------------------------------------- *)
MaxWarmExecutions == 100    \* executions behind the collective at the start
MaxFitnessOps == 2          \* executions explored from there

\* a quick, innovative success of a single agent
SprintExecution ==
    [ScanExecution EXCEPT !.errors = FALSE, !.success = TRUE, !.duration = 2000,
                          !.innovative = TRUE]

RECURSIVE FitnessAfter(_, _, _)
\* the fitness score after n executions x: the first half of them, then the rest
FitnessAfter(f, x, n) ==
    IF n = 0 THEN f
    ELSE IF n = 1 THEN ClampedFitness(f, calculateFitnessImpact(x))
    ELSE CHOOSE v \in {FitnessAfter(p, x, n - (n \div 2)) :
                          p \in {FitnessAfter(f, x, n \div 2)}} : TRUE

\* the collective as n executions of one single-agent task leave it: such an
\* execution yields no pattern, moves the fitness score and, as every
\* execution does, ends in an evolution cycle
InitFitness ==
    /\ program = "collective"
    /\ nops = 0
    /\ budget = MaxFitnessOps
    /\ last = [op |-> "none"]
    /\ run = RunOff
    /\ maxSize = DefaultMaxSize
    /\ MeshFresh /\ TNFresh /\ StoreFresh /\ EngineFresh
    /\ \E n \in 0 .. MaxWarmExecutions, x \in {ScanExecution, SprintExecution} :
          /\ extractPatterns(x, 0) = <<>>
          /\ fitnessScore = FitnessAfter(Half, x, n)
          /\ evolutionGeneration = 1 + n
    /\ learnedPatterns = <<>>
    /\ emergentStrategies = <<>>
    /\ globalMetrics = FreshMetrics
    /\ cycles = NoCycles

NextFitness == \E x \in Executions \cup {SprintExecution} : learnFromExecution(x)

SpecFitness == InitFitness /\ [][NextFitness]_vars

(* ---------------------------------------------------------------------- *)
(* Export of a collective that runs next to a trust ledger                 *)
(* ---------------------------------------------------------------------- *)
MaxExportOps == 3           \* public calls explored

\* a new CollectiveIntelligence next to a CollectiveLearningEngine that is new
\* or has learned from one successful collaboration of two agents
InitExport ==
    /\ program = "collective"
    /\ nops = 0
    /\ budget = MaxExportOps
    /\ last = [op |-> "none"]
    /\ run = RunOff
    /\ maxSize = DefaultMaxSize
    /\ MeshFresh /\ TNFresh /\ CIFresh
    /\ now = 0
    /\ patterns = <<>>
    /\ \E warm \in {0, 1} :
          /\ trustMatrix = EngineAfter(EmptyMap, warm)
          /\ experiences = (IF warm = 0 THEN <<>> ELSE <<WarmExp>>)
          /\ history = (IF warm = 0 THEN NoHistory
                        ELSE [mono |-> TRUE, saved |-> <<WarmExp>>])

NextExport ==
    \/ \E x \in Executions : learnFromExecution(x)
    \/ triggerEvolution
    \/ \E k \in Documents : importKnowledge(k)
    \/ exportKnowledge

SpecExport == InitExport /\ [][NextExport]_vars

(* ---------------------------------------------------------------------- *)
(* Team predictions from imported knowledge                                *)
(* ---------------------------------------------------------------------- *)
MaxTeamSize == 3            \* largest max_team_size asked for
MaxTeamOps == 2             \* predictions explored

Step(from, to) == [from |-> from, to |-> to]

TeamPattern(id, type, sr, domain, complexity, steps) ==
    [id |-> id, type |-> type, name |-> <<id>>,
     context |-> [domain |-> domain, complexity |-> complexity],
     frequency |-> 4, successRate |-> sr, sequence |-> steps]

\* knowledge whose patterns carry message sequences: a three-agent
\* collaboration, a better rated two-agent one for another domain, a timing
\* pattern and a collaboration below the recommendation threshold
TeamDocuments ==
    {[generation |-> 1,
      patterns |-> <<TeamPattern(<<"collab", 1>>, "collaboration", 900, "code", 0,
                                 <<Step("code", "review"), Step("review", "test"),
                                   Step("test", "code")>>),
                     TeamPattern(<<"collab", 2>>, "collaboration", 950, "security", 40,
                                 <<Step("security", ""), Step("", "code")>>),
                     TeamPattern(<<"timing", 1>>, "timing", 990, "code", 40, <<>>)>>,
      strategies |-> <<>>],
     [generation |-> 2,
      patterns |-> <<TeamPattern(<<"collab", 3>>, "collaboration", 650, "code", 0,
                                 <<Step("code", "test")>>)>>,
      strategies |-> <<>>]}

Descriptions ==
    {[words |-> {"review", "the", "code"}, length |-> 15],
     [words |-> {"security", "audit"}, length |-> 14],
     [words |-> {"plan", "release"}, length |-> 20],
     [words |-> {}, length |-> 0]}

ConstraintValues == 0 .. MaxTeamSize

\* no constraint, one or two size limits, a limit next to another constraint
ConstraintLists ==
    {<<>>}
    \cup {<<[type |-> "max_team_size", value |-> v]>> : v \in ConstraintValues}
    \cup {<<[type |-> "max_team_size", value |-> v],
            [type |-> "max_team_size", value |-> w]>> :
              v \in ConstraintValues, w \in ConstraintValues}
    \cup {<<[type |-> "required_skill", value |-> 1],
            [type |-> "max_team_size", value |-> v]>> : v \in ConstraintValues}

\* a collective that has imported one of the documents
InitTeam ==
    /\ program = "collective"
    /\ nops = 0
    /\ budget = MaxTeamOps
    /\ last = [op |-> "none"]
    /\ run = RunOff
    /\ maxSize = DefaultMaxSize
    /\ MeshFresh /\ TNFresh /\ StoreFresh /\ EngineFresh
    /\ \E k \in TeamDocuments :
          /\ learnedPatterns = ImportPatterns(<<>>, k.patterns)
          /\ emergentStrategies = ImportStrategies(<<>>, k.strategies)
          /\ evolutionGeneration = ImportedGeneration(1, k.generation)
    /\ fitnessScore = Half
    /\ globalMetrics = FreshMetrics
    /\ cycles = NoCycles

NextTeam == \E d \in Descriptions, cs \in ConstraintLists : predictOptimalTeam(d, cs)

SpecTeam == InitTeam /\ [][NextTeam]_vars

(* ---------------------------------------------------------------------- *)
(* The mesh driven by messages and negotiations                            *)
(* ---------------------------------------------------------------------- *)
MaxMeshOps == 1         \* public calls of the mesh explored
MaxRounds == 5          \* largest max_rounds passed to negotiate (its default)

Proposals ==
    {[kind |-> "none", value |-> 0], [kind |-> "number", value |-> 10 * Scale],
     [kind |-> "text", value |-> 0]}

\* a fresh mesh, or one whose agents 1 and 2 have a long run of failed or of
\* successful exchanges behind them
InitMesh ==
    /\ program = "mesh"
    /\ nops = 0
    /\ budget = MaxMeshOps
    /\ last = [op |-> "none"]
    /\ run = RunOff
    /\ maxSize = DefaultMaxSize
    /\ \E warm \in {0, 2 * MaxWarm}, good \in BOOLEAN :
          IF warm > 0
          THEN /\ trust_scores = Put(EmptyMap, <<1, 2>>, MeshAfter(Half, good, warm))
               /\ successful_exchanges = (IF good THEN warm ELSE 0)
               /\ failed_exchanges = (IF good THEN 0 ELSE warm)
               /\ MeshQuiet
          ELSE MeshFresh
    /\ TNFresh /\ StoreFresh /\ EngineFresh /\ CIFresh

NextMesh ==
    \/ \E a, b \in Agents : establish_channel(a, b)
    \/ \E a, b \in Agents : send_message(a, b, "query", [text |-> "q"])
    \/ \E a \in Agents : receive_messages(a)
    \/ \E success \in BOOLEAN : update_trust(1, 2, success, 10)
    \/ \E a \in Agents, pr \in Proposals, mr \in 0 .. MaxRounds :
           negotiate(a, 2, pr, mr)
    \/ NegotiateRound
    \/ NegotiateReturn

SpecMesh == InitMesh /\ [][NextMesh]_vars

(* ---------------------------------------------------------------------- *)
(* The mesh driven by sends and receives                                   *)
(* ---------------------------------------------------------------------- *)
MaxQueueOps == 4        \* sends and receives explored

InitQueue ==
    /\ program = "mesh"
    /\ nops = 0
    /\ budget = MaxQueueOps
    /\ last = [op |-> "none"]
    /\ run = RunOff
    /\ maxSize = DefaultMaxSize
    /\ MeshFresh /\ TNFresh /\ StoreFresh /\ EngineFresh /\ CIFresh

NextQueue ==
    \/ \E a, b \in Agents : send_message(a, b, "query", [text |-> "q"])
    \/ \E a \in Agents : receive_messages(a)

SpecQueue == InitQueue /\ [][NextQueue]_vars

(* ====================================================================== *)
(* Claims                                                                  *)
(* ====================================================================== *)

InUnit(x) == 0 <= x /\ x <= Scale

\* C1: whatever updates (success or failure, quality in [0,1]) and decay ticks
\* are applied, every trust score of every ledger stays within [0,1].
C1_TrustWithinUnitInterval ==
    /\ \A k \in DOMAIN trust_scores : InUnit(trust_scores[k])
    /\ \A a, b \in Agents : InUnit(trust_matrix[a][b])
    /\ \A p \in DOMAIN trustMatrix : InUnit(trustMatrix[p])

\* a learn() whose addition went past 1 and was cut back to 1
C1_Witness ==
    /\ program = "engine"
    /\ last.op = "learn" /\ last.result = "ok"
    /\ last.exp.success = "true" /\ last.exp.quality = 10
    /\ <<1, 2>> \in DOMAIN trustMatrix
    /\ trustMatrix[<<1, 2>>] = Scale

EngineTrust(tm, a, b) == EngineGet(tm, <<a, b>>)

\* C2: a successful interaction of quality in (0,1] on a pair whose trust is
\* below 1 never lowers that trust and never makes it equal to 1.
C2_SuccessRaisesBelowOne ==
    [][/\ (program = "mesh" /\ last'.op = "update_trust"
              /\ last'.success /\ last'.quality > 0
              /\ get_trust_score(last'.a, last'.b) < Scale)
          => /\ MeshGet(trust_scores', TrustKey(last'.a, last'.b))
                    >= get_trust_score(last'.a, last'.b)
             /\ MeshGet(trust_scores', TrustKey(last'.a, last'.b)) < Scale
       /\ (program = "trustnet" /\ last'.op = "update_trust_from_interaction"
              /\ last'.outcome = "success" /\ last'.quality > 0
              /\ trust_matrix[last'.a][last'.b] < Scale)
          => /\ trust_matrix'[last'.a][last'.b] >= trust_matrix[last'.a][last'.b]
             /\ trust_matrix'[last'.a][last'.b] < Scale
       /\ (program = "engine" /\ last'.op = "learn" /\ last'.result = "ok"
              /\ last'.exp.success = "true" /\ last'.exp.quality > 0)
          => \A a, b \in Agents :
                (a # b /\ Len(last'.exp.agents) = 2 /\ EngineTrust(trustMatrix, a, b) < Scale)
                => /\ EngineTrust(trustMatrix', a, b) >= EngineTrust(trustMatrix, a, b)
                   /\ EngineTrust(trustMatrix', a, b) < Scale
      ]_vars

\* C3: from neutral trust, n >= 1 failed updates lower the trust by more than
\* n successful updates (of any quality <= 1) raise it.
C3_FailuresOutpaceSuccesses ==
    run.n >= 1 => (Half - run.down) > (run.up - Half)

\* C3 as amended: in the mesh for every n; in TrustNetwork, whose scores are
\* clipped to [0.1, 0.95], for n <= 15.
C3_FailuresOutpaceSuccessesUntilFloor ==
    (run.n >= 1 /\ (run.ledger = "mesh" \/ run.n <= 15))
        => (Half - run.down) > (run.up - Half)

\* the last run length for which TrustNetwork still satisfies the property:
\* the failures sit on the floor, the successes have not yet gained 0.4
C3_Witness ==
    /\ run.ledger = "trustnet" /\ run.n = 15 /\ run.q = 10
    /\ run.down = MinTrust
    /\ run.up > Half

\* C4: after any sequence of save calls the store holds at most C experiences.
C4_StoreWithinCapacity ==
    program = "store" => Len(experiences) <= maxSize

\* more distinct experiences than the capacity were saved and the store is full
C4_Witness ==
    /\ program = "store"
    /\ history.mono /\ Len(history.saved) > maxSize
    /\ Len(experiences) = maxSize

Range(seq) == {seq[i] : i \in 1 .. Len(seq)}

\* the last k entries of a sequence
LastK(seq, k) == SubSeq(seq, Len(seq) - k + 1, Len(seq))

\* C5: a save of a new id into a full store removes exactly one experience, one
\* with the smallest timestamp, keeps every other and stores the new one; and
\* after n saves of distinct ids with increasing timestamps the store holds
\* exactly the min(n, C) most recent ones.
C5_EvictsOldest ==
    /\ [][(/\ program = "store"
           /\ last'.op = "save" /\ last'.result = "ok"
           /\ last'.id \notin Ids(experiences)
           /\ Len(experiences) = maxSize)
          => \E i \in 1 .. Len(experiences) :
                /\ \A j \in 1 .. Len(experiences) :
                       experiences[i].timestamp <= experiences[j].timestamp
                /\ Len(experiences') = Len(experiences)
                /\ Ids(experiences') = (Ids(experiences) \ {experiences[i].id}) \cup {last'.id}
                /\ \A j \in 1 .. Len(experiences) :
                       j # i => experiences[j] \in Range(experiences')
         ]_vars
    /\ [](history.mono =>
            Range(experiences) =
                Range(LastK(history.saved, Min(Len(history.saved), maxSize))))

\* one more experience than the capacity was saved, with increasing timestamps
C5_Witness ==
    /\ program = "store"
    /\ history.mono /\ Len(history.saved) = maxSize + 1
    /\ Len(experiences) = maxSize
    /\ history.saved[1] \notin Range(experiences)

\* C6: while an id remains in the store, the content stored under it is never
\* changed by a later operation.
C6_ExperienceImmutable ==
    [][program = "store" =>
          \A i \in 1 .. Len(experiences) :
              experiences[i].id \in Ids(experiences')
                  => experiences[i] \in Range(experiences')]_vars

C8_RarePatternsKept ==
    [][program = "collective" =>
          IF last'.evolved
          THEN /\ Ids(learnedPatterns) \subseteq Ids(last'.table)
               /\ \A i \in 1 .. Len(last'.table) :
                     last'.table[i].frequency <= 5
                         => last'.table[i].id \in Ids(learnedPatterns')
          ELSE \A i \in 1 .. Len(learnedPatterns) :
                  learnedPatterns[i].frequency <= 5
                      => learnedPatterns[i].id \in Ids(learnedPatterns')]_vars

\* an evolution cycle has run and left a pattern seen five times that fails
\* four times out of five
C8_Witness ==
    /\ program = "collective"
    /\ last.op = "triggerEvolution"
    /\ \E i \in 1 .. Len(last.table) :
          /\ last.table[i].frequency = 5 /\ last.table[i].successRate < 300
          /\ last.table[i] \in Range(learnedPatterns)

\* C9: a pattern with frequency > 5 and success rate < 0.3 is removed by the
\* next evolution cycle (pass) that runs: every such pattern in the table the
\* pass starts from (last.table) has left the table when the pass ends and is
\* reported as deprecated, and the pass leaves no such pattern behind.
C9_WeakPatternsRemovedByNextPass ==
    [][(program = "collective" /\ last'.evolved) =>
          /\ \A i \in 1 .. Len(last'.table) :
                (last'.table[i].frequency > 5 /\ last'.table[i].successRate < 300)
                    => /\ last'.table[i].id \notin Ids(learnedPatterns')
                       /\ last'.table[i] \in Range(last'.result.deprecated)
          /\ \A i \in 1 .. Len(learnedPatterns') :
                ~(learnedPatterns'[i].frequency > 5 /\ learnedPatterns'[i].successRate < 300)
      ]_vars

\* a pass has just removed a pattern seen more than five times that succeeds
\* less than three times out of ten, and kept another pattern
C9_Witness ==
    /\ program = "collective"
    /\ last.op \in {"triggerEvolution", "learnFromExecution"} /\ last.evolved
    /\ \E i \in 1 .. Len(last.table) :
          /\ last.table[i].frequency > 5 /\ last.table[i].successRate < 300
          /\ last.table[i].id \notin Ids(learnedPatterns)
    /\ learnedPatterns # <<>>

\* C10: for every max_rounds >= 0 and every trust value, negotiate terminates,
\* sends at most max_rounds proposal messages (never more than 5 with
\* max_rounds = 5), and the rounds count it reports is <= max_rounds.
\* Termination: while the call runs its next step can be taken, every round
\* sends one message, and the number of rounds never exceeds max_rounds.
C10_NegotiationBounded ==
    program = "mesh" =>
        /\ nego.pc = "loop" =>
              /\ ENABLED (NegotiateRound \/ NegotiateReturn)
              /\ nego.rounds <= nego.max_rounds
              /\ Len(message_history) - nego.sent_before = nego.rounds
              /\ Len(nego.negotiation_history) = nego.rounds
        /\ last.op = "negotiate" =>
              /\ last.sent <= last.max_rounds
              /\ last.max_rounds = 5 => last.sent <= 5
              /\ ~last.raised => /\ last.result.rounds <= last.max_rounds
                                 /\ last.sent = last.result.rounds

\* a negotiation with max_rounds = 5 has returned after five proposal messages
C10_Witness ==
    /\ program = "mesh"
    /\ nego = IdleFrame
    /\ last.op = "negotiate" /\ ~last.raised
    /\ last.max_rounds = 5 /\ last.sent = 5 /\ last.result.rounds = 5

\* C11: two fresh agents (trust 0.5) negotiating the proposal {value: 10}
\* (default max_rounds) reach agreement at round 0: once the first proposal
\* message is out, agreement is reached and nothing else is sent.
C11_FreshPairAcceptsAtRoundZero ==
    (/\ program = "mesh"
     /\ nego.pc = "loop"
     /\ nego.max_rounds = 5
     /\ nego.rounds >= 1
     /\ get_trust_score(nego.initiator, nego.responder) = Half
     /\ nego.negotiation_history[1].content.proposal = [kind |-> "number", value |-> 10 * Scale])
        => /\ nego.agreement_reached
           /\ nego.rounds = 1
           /\ Len(message_history) - nego.sent_before = 1

\* the trust of the pair a negotiation frame is about
FrameTrust(ts, f) == MeshGet(ts, TrustKey(f.initiator, f.responder))

\* C12 as stated: a negotiation that returns performs exactly one trust update
\* on its pair; after an agreement the pair's trust is strictly higher than
\* before (when below 1), without agreement strictly lower (when above 0).
C12_OutcomeMovesTrust ==
    [][program = "mesh" =>
         /\ (nego.pc = "loop" /\ nego' = IdleFrame /\ ~last'.raised) =>
               /\ successful_exchanges' + failed_exchanges'
                     = successful_exchanges + failed_exchanges + 1
               /\ (last'.result.success /\ FrameTrust(trust_scores, nego) < Scale)
                     => FrameTrust(trust_scores', nego) > FrameTrust(trust_scores, nego)
               /\ (~last'.result.success /\ FrameTrust(trust_scores, nego) > 0)
                     => FrameTrust(trust_scores', nego) < FrameTrust(trust_scores, nego)
         /\ (nego'.pc = "loop") =>
               /\ UNCHANGED <<successful_exchanges, failed_exchanges>>
               /\ FrameTrust(trust_scores', nego') = FrameTrust(trust_scores, nego')
      ]_vars

\* C12 as the code has it: exactly one trust update per returning negotiation;
\* after an agreement the trust is never lower, and strictly higher when the
\* increase 0.08 * (1 - trust) is at least half a unit of the score's
\* resolution; without agreement it is never higher, and strictly lower when
\* the decrease 0.15 * trust is at least half a unit.
C12_OutcomeMovesTrustWithinResolution ==
    [][program = "mesh" =>
         /\ (nego.pc = "loop" /\ nego' = IdleFrame /\ ~last'.raised) =>
               /\ successful_exchanges' + failed_exchanges'
                     = successful_exchanges + failed_exchanges + 1
               /\ last'.result.success =>
                     /\ successful_exchanges' = successful_exchanges + 1
                     /\ FrameTrust(trust_scores', nego) >= FrameTrust(trust_scores, nego)
                     /\ 2 * 8 * (Scale - FrameTrust(trust_scores, nego)) >= 100
                           => FrameTrust(trust_scores', nego) > FrameTrust(trust_scores, nego)
               /\ ~last'.result.success =>
                     /\ failed_exchanges' = failed_exchanges + 1
                     /\ FrameTrust(trust_scores', nego) <= FrameTrust(trust_scores, nego)
                     /\ 2 * 15 * FrameTrust(trust_scores, nego) >= 100
                           => FrameTrust(trust_scores', nego) < FrameTrust(trust_scores, nego)
         /\ (nego'.pc = "loop") =>
               /\ UNCHANGED <<successful_exchanges, failed_exchanges>>
               /\ FrameTrust(trust_scores', nego') = FrameTrust(trust_scores, nego')
      ]_vars

\* a negotiation between fresh agents has ended in agreement and their trust
\* stands above 0.5
C12_Witness ==
    /\ program = "mesh"
    /\ last.op = "negotiate" /\ ~last.raised
    /\ last.result.success
    /\ successful_exchanges = 1 /\ failed_exchanges = 0
    /\ \E k \in DOMAIN trust_scores : trust_scores[k] > Half

\* the messages of the history addressed to agent, in send order
ToAgent(h, agent) == Filter(h, {i \in 1 .. Len(h) : h[i].to_agent = agent})

FromAgent(h, agent) == Filter(h, {i \in 1 .. Len(h) : h[i].from_agent = agent})

\* C13: receive(B) returns the messages pending for B in the order in which
\* they were sent: the result is the tail of everything ever sent to B, in
\* send order, and so are the messages of each sender within it.
C13_ReceivedInSendOrder ==
    (program = "mesh" /\ last.op = "receive_messages") =>
        /\ last.result = LastK(ToAgent(message_history, last.agent), Len(last.result))
        /\ \A a \in Agents :
              FromAgent(last.result, a)
                 = LastK(FromAgent(ToAgent(message_history, last.agent), a),
                         Len(FromAgent(last.result, a)))

\* a receive has returned two messages of one sender, the later one last, with
\* a message of another sender between them
C13_Witness ==
    /\ program = "mesh"
    /\ last.op = "receive_messages"
    /\ Len(last.result) = 3
    /\ last.result[1].from_agent = last.result[3].from_agent
    /\ last.result[2].from_agent # last.result[1].from_agent
    /\ last.result[1].timestamp < last.result[3].timestamp

\* C14: receive(agent) is a drain: it returns every message sent to the agent
\* since the agent's previous receive and leaves the queue empty; a receive
\* right after it returns nothing; every message sent is pending or has been
\* returned, never both and never twice.
C14_ReceiveDrains ==
    [][program = "mesh" =>
         /\ \A a \in Agents :
              LET sent == ToAgent(message_history', a)
              IN /\ Len(sent) = delivered'[a] + Len(PendingOf(pending_messages', a))
                 /\ PendingOf(pending_messages', a)
                       = SubSeq(sent, delivered'[a] + 1, Len(sent))
         /\ last'.op = "receive_messages" =>
              LET sent == ToAgent(message_history', last'.agent)
              IN /\ PendingOf(pending_messages', last'.agent) = <<>>
                 /\ last'.result = SubSeq(sent, delivered[last'.agent] + 1, Len(sent))
                 /\ delivered'[last'.agent] = Len(sent)
         /\ (last.op = "receive_messages" /\ last'.op = "receive_messages"
                /\ last'.agent = last.agent)
               => last'.result = <<>>
      ]_vars

\* a receive has returned nothing to an agent that was given messages by an
\* earlier receive
C14_Witness ==
    /\ program = "mesh"
    /\ last.op = "receive_messages"
    /\ last.result = <<>>
    /\ delivered[last.agent] >= 2
    /\ PendingOf(pending_messages, last.agent) = <<>>

\* an agent the mesh has a channel or a queue for
KnownAgent(agent) ==
    \/ agent \in DOMAIN pending_messages
    \/ \E k \in DOMAIN channels : agent \in Range(channels[k].agents)

\* C15: a send addressed to an agent the mesh does not know fails and leaves
\* every pending queue, the channel table, the message history and the trust
\* scores as they were.
C15_SendToUnknownAgentRejected ==
    [][(/\ program = "mesh"
        /\ last'.op = "send_message"
        /\ nops' = nops + 1
        /\ ~KnownAgent(last'.result.to_agent))
           => UNCHANGED <<pending_messages, channels, message_history, trust_scores>>
      ]_vars

\* C16: a trust update on a self-pair (a, a) is rejected and leaves every
\* trust score, self-trust included, unchanged.
C16_SelfPairUpdateRejected ==
    [][/\ (program = "mesh" /\ last'.op = "update_trust" /\ nops' = nops + 1
              /\ last'.a = last'.b)
          => trust_scores' = trust_scores
       /\ (program = "trustnet" /\ last'.op = "update_trust_from_interaction"
              /\ nops' = nops + 1 /\ last'.a = last'.b)
          => trust_matrix' = trust_matrix
      ]_vars

\* C17: trust edges are directed: an update of (a, b) changes the score of the
\* ordered pair (a, b) only; the score read for (b, a) and for every other
\* ordered pair is as before.
C17_UpdateChangesOneDirectedEdge ==
    [][/\ (program = "mesh" /\ last'.op = "update_trust" /\ nops' = nops + 1)
          => \A x, y \in Agents :
                <<x, y>> # <<last'.a, last'.b>>
                   => MeshGet(trust_scores', TrustKey(x, y))
                         = MeshGet(trust_scores, TrustKey(x, y))
       /\ (program = "trustnet" /\ last'.op = "update_trust_from_interaction"
              /\ nops' = nops + 1)
          => \A x, y \in Agents :
                <<x, y>> # <<last'.a, last'.b>>
                   => trust_matrix'[x][y] = trust_matrix[x][y]
      ]_vars

\* C18: each triggered evolution cycle increases the generation counter by
\* exactly 1; its result reports the counter before the cycle as
\* previousGeneration and previousGeneration + 1 as newGeneration.
C18_CycleAdvancesGenerationByOne ==
    [][(program = "collective" /\ last'.evolved /\ nops' = nops + 1) =>
          /\ evolutionGeneration' = evolutionGeneration + 1
          /\ last'.result.previousGeneration = evolutionGeneration
          /\ last'.result.newGeneration = last'.result.previousGeneration + 1
          /\ last'.result.newGeneration = evolutionGeneration'
      ]_vars

\* a cycle has run after an import had raised the generation to 3
C18_Witness ==
    /\ program = "collective"
    /\ last.op = "triggerEvolution"
    /\ last.result.previousGeneration = 3
    /\ evolutionGeneration = 4

\* C19: over any sequence of learnFromExecution, triggerEvolution and
\* importKnowledge calls the generation counter never decreases: an import of
\* an older generation leaves it unchanged, an import of a newer one raises it
\* to the imported value.
C19_GenerationNeverDecreases ==
    [][program = "collective" =>
          /\ evolutionGeneration' >= evolutionGeneration
          /\ (last'.op = "importKnowledge" /\ nops' = nops + 1) =>
                /\ last'.generation <= evolutionGeneration
                      => evolutionGeneration' = evolutionGeneration
                /\ last'.generation > evolutionGeneration
                      => evolutionGeneration' = last'.generation
      ]_vars

\* knowledge of an older generation has just been imported into a collective
\* that evolved past generation 3
C19_Witness ==
    /\ program = "collective"
    /\ last.op = "importKnowledge"
    /\ last.generation < evolutionGeneration
    /\ evolutionGeneration > 3

\* C20: the selection step of an evolution cycle retains the top ceil(80%) of
\* the pre-cycle population: the surviving set has ceil(0.8 * size) members,
\* never fewer than 80% of the population the cycle starts from.
C20_SelectionKeepsEightyPercent ==
    (program = "collective" /\ last.op \in {"triggerEvolution", "learnFromExecution"}
        /\ last.evolved)
      => /\ Len(last.surviving) = SelectedCount(last.table)
         /\ 10 * Len(last.surviving) >= 8 * Len(last.table)

\* C21: learnFromExecution triggers an evolution cycle only when the number of
\* recorded executions is a positive multiple of 100 or the last 20 fitness
\* values have a variance below 0.001; after any other execution the
\* generation counter is unchanged.
C21_EvolutionOnlyOnSchedule ==
    [][(program = "collective" /\ last'.op = "learnFromExecution" /\ nops' = nops + 1) =>
          \/ /\ globalMetrics.totalExecutions > 0
             /\ globalMetrics.totalExecutions % 100 = 0
          \/ hasfitnessPlateaued(globalMetrics)
          \/ (~last'.evolved /\ evolutionGeneration' = evolutionGeneration)
      ]_vars

\* pattern pt is an entry of the list tab, with the figures it has in pt
Listed(tab, pt) ==
    \E j \in 1 .. Len(tab) :
        /\ tab[j].id = pt.id
        /\ tab[j].type = pt.type
        /\ tab[j].frequency = pt.frequency
        /\ tab[j].successRate = pt.successRate

\* the ids of a strategy population
StrategyIds(st) == {st[i].id : i \in 1 .. Len(st)}

\* C22: no silent loss: for every evolution cycle, each pattern and each
\* strategy in the population before the cycle is afterwards either still in
\* the population or listed in the deprecated set the cycle returns.
C22_NoSilentLoss ==
    [][(program = "collective" /\ last'.evolved /\ nops' = nops + 1) =>
          /\ \A i \in 1 .. Len(last'.table) :
                \/ Listed(learnedPatterns', last'.table[i])
                \/ Listed(last'.result.deprecated, last'.table[i])
          /\ \A id \in StrategyIds(emergentStrategies) :
                \/ id \in StrategyIds(emergentStrategies')
                \/ \E j \in 1 .. Len(last'.result.deprecated) :
                      /\ last'.result.deprecated[j].type = "strategy"
                      /\ last'.result.deprecated[j].id = id
      ]_vars

\* a cycle that started from kept and weak patterns and a strategy has
\* deprecated the weak ones
C22_Witness ==
    /\ program = "collective"
    /\ last.op \in {"triggerEvolution", "learnFromExecution"}
    /\ last.evolved
    /\ last.result.deprecated # <<>>
    /\ Len(last.table) > Len(last.result.deprecated)
    /\ emergentStrategies # <<>>

\* C23: after any sequence of learnFromExecution calls the global fitness
\* score is within [0, 1].
C23_FitnessWithinUnitInterval ==
    program = "collective" => (0 <= fitnessScore /\ fitnessScore <= Scale)

\* a failed execution has been recorded by a collective whose fitness score
\* had already fallen to 0
C23_Witness ==
    /\ program = "collective"
    /\ last.op = "learnFromExecution"
    /\ last.fitnessImpact < 0
    /\ fitnessScore = 0
    /\ evolutionGeneration > MaxWarmExecutions + 1

\* a quick innovative success has been recorded at fitness score 1
C23_WitnessTop ==
    /\ program = "collective"
    /\ last.op = "learnFromExecution"
    /\ last.fitnessImpact > 0
    /\ fitnessScore = Scale
    /\ nops = MaxFitnessOps

\* C24: the pattern table holds at most one pattern per task type after any
\* number of experiences and recognition passes, and once 10 successful
\* experiences of one task type with the same agents are recorded it holds a
\* pattern for that type with confidence above the threshold.
C24_OnePatternPerTaskType ==
    program = "store" =>
       /\ \A i, j \in 1 .. Len(patterns) :
             patterns[i].taskType = patterns[j].taskType => i = j
       /\ (history.mono /\ Len(Successful(history.saved)) >= RecognitionPeriod)
             => \E i \in 1 .. Len(patterns) :
                   /\ patterns[i].taskType = ValidContent.taskType
                   /\ patterns[i].confidence > ConfidenceThreshold

\* C25: a recognition pass runs after every 10th successful insertion into
\* the store, counting insertions since start, and after no other insertion,
\* also once the store is full and evicts on each insertion.
C25_PassEveryTenthInsertion ==
    [][(program = "store" /\ last'.op = "save" /\ last'.result = "ok"
           /\ history'.mono /\ history' # history) =>
          (last'.pass <=> Len(history'.saved) % RecognitionPeriod = 0)
      ]_vars

\* C26: a message is immutable once created: the message send has put in the
\* recipient's pending queue (id, from, to, type, payload, confidence) is not
\* changed by any later operation, be it a send, a trust update or a later
\* round of the negotiation that produced it, for as long as it is pending.
C26_PendingMessageImmutable ==
    [][program = "mesh" =>
          \A a \in DOMAIN pending_messages :
             \A i \in 1 .. Len(pending_messages[a]) :
                Len(PendingOf(pending_messages', a)) >= i
                   => pending_messages'[a][i] = pending_messages[a][i]
      ]_vars

\* C30: every message created by send has an id different from the id of
\* every other message the mesh has ever created, however close in time the
\* sends are.
C30_MessageIdsUnique ==
    program = "mesh" =>
       \A i, j \in 1 .. Len(message_history) :
          message_history[i].id = message_history[j].id => i = j

\* the size limits a list of constraints supplies
SizeLimits(constraints) ==
    {constraints[i].value : i \in {j \in 1 .. Len(constraints) :
                                      constraints[j].type = "max_team_size"}}

\* C29: when max_team_size is supplied, predictOptimalTeam never returns a
\* team with more than max_team_size agents, and the returned team is a
\* prefix of the unconstrained recommendation.
C29_TeamWithinSizeLimit ==
    (program = "collective" /\ last.op = "predictOptimalTeam"
        /\ SizeLimits(last.constraints) # {})
      => /\ \A v \in SizeLimits(last.constraints) :
               Len(last.result.recommendedAgents) <= v
         /\ Len(last.result.recommendedAgents) <= Len(last.unconstrained)
         /\ last.result.recommendedAgents
               = SubSeq(last.unconstrained, 1, Len(last.result.recommendedAgents))

\* a recommendation of three agents has been cut to its first two
C29_Witness ==
    /\ program = "collective"
    /\ last.op = "predictOptimalTeam"
    /\ SizeLimits(last.constraints) = {2}
    /\ Len(last.unconstrained) = 3
    /\ Len(last.result.recommendedAgents) = 2

\* C27: round trip: importing the document exportKnowledge produced for a
\* system S into an empty system yields a system whose generation number,
\* trust-edge set, pattern list and strategy population equal those of S.
C27_ExportImportRoundTrip ==
    (program = "collective" /\ last.op = "exportKnowledge") =>
        /\ ImportedSystem(last.result).generation = evolutionGeneration
        /\ ImportedSystem(last.result).patterns = learnedPatterns
        /\ ImportedSystem(last.result).strategies = emergentStrategies
        /\ ImportedSystem(last.result).trust = trustMatrix

\* C28: every recorded task outcome updates trust between the participating
\* agents: for an experience with at least two distinct agents, a successful
\* outcome leaves trust(a1, a2) above its prior value (above 0.5 for fresh
\* agents) and a failed outcome leaves it below its prior value.
C28_OutcomeUpdatesTrust ==
    [][(program = "engine" /\ last'.op = "learn" /\ last'.result = "ok"
           /\ nops' = nops + 1) =>
          \A i \in 1 .. Len(PairsOf(last'.exp.agents, 1, 1)) :
             LET pair == PairsOf(last'.exp.agents, 1, 1)[i]
             IN /\ last'.exp.success = "true"
                      => EngineGet(trustMatrix', pair) > EngineGet(trustMatrix, pair)
                /\ last'.exp.success = "false"
                      => EngineGet(trustMatrix', pair) < EngineGet(trustMatrix, pair)
      ]_vars

\* the pattern table as step 1 of the learnFromExecution call just made left it
LearnedTable == IF last'.evolved THEN last'.table ELSE learnedPatterns'

\* C31: when learnFromExecution extracts a pattern that is similar (same type,
\* name and context) to a pattern already in the table, no new pattern is
\* added and the existing pattern's frequency increases by 1 and its success
\* rate becomes 0.9 * old + 0.1 * (1 on success, 0 on failure).
C31_SimilarPatternReinforced ==
    [][(program = "collective" /\ last'.op = "learnFromExecution" /\ nops' = nops + 1) =>
          LET x == last'.execution
              found == extractPatterns(x, now')
          IN \A i \in 1 .. Len(found) : \A j \in 1 .. Len(learnedPatterns) :
                patternsAreSimilar(learnedPatterns[j], found[i]) =>
                   /\ Len(LearnedTable) <= Len(learnedPatterns) + Len(found) - 1
                   /\ \E k \in 1 .. Len(LearnedTable) :
                         /\ LearnedTable[k].id = learnedPatterns[j].id
                         /\ LearnedTable[k].frequency = learnedPatterns[j].frequency + 1
                         /\ LearnedTable[k].successRate =
                               RoundDiv(learnedPatterns[j].successRate * 9
                                        + (IF x.success THEN Scale ELSE 0), 10)
      ]_vars

\* pattern pt is in the table pats with the figures it has in pt
Recognized(pats, pt) ==
    \E j \in 1 .. Len(pats) :
        /\ pats[j].id = pt.id
        /\ pats[j].frequency = pt.frequency
        /\ pats[j].confidence = pt.confidence

\* C32: a pattern materializes for a task type only when at least 3
\* experiences of that type are stored at the time of the recognition pass
\* and the group's success rate meets the confidence threshold, and the
\* pattern's confidence equals successful_count / total_count of that group.
C32_PatternNeedsSamplesAndConfidence ==
    [][(program = "store" /\ last'.op = "save" /\ last'.result = "ok") =>
          \A k \in 1 .. Len(patterns') :
             LET pt == patterns'[k]
                 group == OfType(experiences', pt.taskType)
                 good == Len(Successful(group))
             IN ~Recognized(patterns, pt) =>
                   /\ last'.pass
                   /\ Len(group) >= 3
                   /\ good * Scale >= 700 * Len(group)
                   /\ pt.confidence = RoundDiv(good * Scale, Len(group))
                   /\ pt.frequency = good
      ]_vars

\* a pass has made a pattern from a group that did not always succeed, and
\* none for the two experiences of the other task type
C32_Witness ==
    /\ program = "store"
    /\ last.op = "save" /\ last.pass
    /\ \E k \in 1 .. Len(patterns) :
          patterns[k].taskType = "review" /\ patterns[k].confidence < Scale
    /\ Len(OfType(experiences, "test")) = 2
    /\ \A k \in 1 .. Len(patterns) : patterns[k].taskType # "test"

\* C33: a decay tick moves every non-self trust score strictly closer to 0.5
\* without crossing 0.5 (a score equal to 0.5 stays 0.5) and leaves
\* self-trust unchanged.
C33_DecayPullsTowardNeutral ==
    [][(program = "trustnet" /\ last'.op = "apply_trust_decay" /\ nops' = nops + 1) =>
          \A a, b \in Agents :
             LET old == trust_matrix[a][b]
                 new == trust_matrix'[a][b]
             IN IF a = b THEN new = old
                ELSE /\ old = Half => new = Half
                     /\ old > Half => (Half <= new /\ new < old)
                     /\ old < Half => (old < new /\ new <= Half)
      ]_vars

\* the messages msgs are the proposals of rounds 0, 1, 2, ... of a negotiation
\* between ini and res, sent in turns
NegotiationOrdered(msgs, ini, res) ==
    \A i \in 1 .. Len(msgs) :
        /\ msgs[i].message_type = "negotiation"
        /\ msgs[i].content.round = i - 1
        /\ msgs[i].from_agent = (IF (i - 1) % 2 = 0 THEN ini ELSE res)
        /\ msgs[i].to_agent = (IF (i - 1) % 2 = 0 THEN res ELSE ini)

\* C34: within one negotiation the proposal messages carry round numbers
\* 0, 1, 2, ... without gaps or repeats, the message of round r goes from the
\* initiator to the responder when r is even and from the responder to the
\* initiator when r is odd, and no proposal message is sent for the
\* negotiation after an acceptance.
C34_RoundsAlternate ==
    [][program = "mesh" =>
          /\ nego'.pc = "loop" =>
                LET msgs == SubSeq(message_history', nego'.sent_before + 1,
                                   Len(message_history'))
                IN /\ Len(msgs) = nego'.rounds
                   /\ NegotiationOrdered(msgs, nego'.initiator, nego'.responder)
          /\ (nego.pc = "loop" /\ nego' = IdleFrame /\ ~last'.raised) =>
                /\ Len(last'.result.history) = last'.result.rounds
                /\ NegotiationOrdered(last'.result.history, nego.initiator,
                                      nego.responder)
          /\ (nego.pc = "loop" /\ nego.agreement_reached) =>
                message_history' = message_history
      ]_vars

\* a negotiation between two agents has ended by acceptance of its fourth
\* proposal
C34_Witness ==
    /\ program = "mesh"
    /\ last.op = "negotiate" /\ ~last.raised
    /\ last.result.success
    /\ last.result.rounds = 4
    /\ last.result.history[1].from_agent # last.result.history[1].to_agent

(* ---------------------------------------------------------------------- *)
(* Evolution cycles over a population of several strategies                *)
(* ---------------------------------------------------------------------- *)

MaxEvolutionOps == 1

\* knowledge documents that bring strategies: four of them, two of equal
\* fitness; a fifth that ranks second; a pair of older ones
FourStrategies ==
    [generation |-> 3,
     patterns |-> <<>>,
     strategies |-> <<ImportedStrategy("s1", 900, 0, 1000),
                      ImportedStrategy("s2", 700, 1, 500),
                      ImportedStrategy("s3", 700, 3, 2000),
                      ImportedStrategy("s4", 400, 2, 100)>>]

FifthStrategy ==
    [generation |-> 1,
     patterns |-> <<>>,
     strategies |-> <<ImportedStrategy("s5", 800, 1, 300)>>]

OlderStrategies ==
    [generation |-> 0,
     patterns |-> <<>>,
     strategies |-> <<ImportedStrategy("s1", 200, 0, 1000),
                      ImportedStrategy("s6", 100, 0, 40)>>]

StrategyDocuments == {FourStrategies, FifthStrategy, OlderStrategies}

\* the imports a system has seen before the calls the model follows
EarlierImports == {<<>>, <<OlderStrategies>>, <<FourStrategies>>,
                   <<FourStrategies, FifthStrategy>>}

\* population and generation after importing the documents ds in turn
RECURSIVE ImportedAll(_, _)
ImportedAll(sys, ds) ==
    IF ds = <<>> THEN sys
    ELSE ImportedAll([generation |-> ImportedGeneration(sys.generation, ds[1].generation),
                      strategies |-> ImportStrategies(sys.strategies, ds[1].strategies)],
                     Tail(ds))

InitEvolution ==
    /\ program = "collective"
    /\ nops = 0
    /\ budget = MaxEvolutionOps
    /\ last = [op |-> "none"]
    /\ run = RunOff
    /\ maxSize = DefaultMaxSize
    /\ MeshFresh /\ TNFresh /\ StoreFresh /\ EngineFresh
    /\ fitnessScore = Half
    /\ learnedPatterns = <<>>
    /\ globalMetrics = FreshMetrics
    /\ cycles = NoCycles
    /\ \E ds \in EarlierImports :
          LET sys == ImportedAll([generation |-> 1, strategies |-> <<>>], ds)
          IN /\ evolutionGeneration = sys.generation
             /\ emergentStrategies = sys.strategies

NextEvolution ==
    \/ triggerEvolution
    \/ \E k \in StrategyDocuments : importKnowledge(k)

SpecEvolution == InitEvolution /\ [][NextEvolution]_vars

\* the mutated set muts reports the stored strategy sg: it holds the copy
\* mutateStrategy made of it at time t, under the id `<id>-mut-<t>`
Reported(muts, sg, t) ==
    \E k \in 1 .. Len(muts) : muts[k].id = <<sg.id, "mut", t>>

\* C35: an evolution cycle changes the parameters of a strategy stored in the
\* population only if that strategy is reported in the cycle's returned
\* mutated set; the parameters of every strategy not reported there are the
\* same after the cycle as before it.
C35_UnreportedStrategiesKeepParameters ==
    [][(program = "collective" /\ last'.op = "triggerEvolution" /\ nops' = nops + 1) =>
          /\ Len(emergentStrategies') = Len(emergentStrategies)
          /\ \A i \in 1 .. Len(emergentStrategies) :
                /\ emergentStrategies'[i].id = emergentStrategies[i].id
                /\ ~Reported(last'.result.mutations, emergentStrategies[i], now') =>
                      emergentStrategies'[i].parameter = emergentStrategies[i].parameter
      ]_vars

\* a cycle has reduced the parameter of s1 (1000 on import) and reported it,
\* and has left s2 alone and out of the report
C35_Witness ==
    /\ program = "collective"
    /\ last.op = "triggerEvolution"
    /\ Len(emergentStrategies) >= 2
    /\ emergentStrategies[1].id = "s1" /\ emergentStrategies[1].parameter = 800
    /\ emergentStrategies[2].id = "s2" /\ emergentStrategies[2].parameter = 500
    /\ Reported(last.result.mutations, emergentStrategies[1], now)
    /\ ~Reported(last.result.mutations, emergentStrategies[2], now)

\* sg1 and sg2 are neighbours in descending fitness order among the top four
\* of population st
AdjacentInTopFour(st, sg1, sg2) ==
    /\ sg1.fitness >= sg2.fitness
    /\ ~ \E i \in 1 .. Len(st) :
            st[i].fitness < sg1.fitness /\ st[i].fitness > sg2.fitness
    /\ Cardinality({i \in 1 .. Len(st) : st[i].fitness > sg2.fitness}) < BreedingPool

\* C37: with at least 4 strategies in the population, the crossover step
\* produces exactly 3 offspring, each bred from two strategies adjacent in
\* descending fitness order among the top 4, each with fitness 0.5 and
\* generation equal to max(generation of its two parents) + 1.
C37_ThreeOffspringOfAdjacentParents ==
    (program = "collective" /\ last.op = "triggerEvolution"
       /\ Len(emergentStrategies) >= BreedingPool) =>
        /\ Len(last.offspring) = BreedingPool - 1
        /\ \A k \in 1 .. Len(last.offspring) :
              \E i, j \in 1 .. Len(emergentStrategies) :
                 /\ i # j
                 /\ last.offspring[k].name = <<emergentStrategies[i].id,
                                                emergentStrategies[j].id>>
                 /\ AdjacentInTopFour(emergentStrategies, emergentStrategies[i],
                                      emergentStrategies[j])
                 /\ last.offspring[k].fitness = Half
                 /\ last.offspring[k].generation =
                       Max(emergentStrategies[i].generation,
                           emergentStrategies[j].generation) + 1

(* ---------------------------------------------------------------------- *)
(* Overlapping evolution cycles                                            *)
(*                                                                         *)
(* triggerEvolution is an async method: it runs to its first await, and    *)
(* from each await to the next, without interruption; between two of these *)
(* steps another call of triggerEvolution can start or go on.              *)
(* ---------------------------------------------------------------------- *)

\* some other cycle is suspended at an await
OtherInProgress(c) ==
    \E o \in CycleIds \ {c} : cycles[o].pc \notin {"idle", "done"}

\* lines 584-599: the result is built from the generation read at the call,
\* selectBestPatterns and mutateStrategies run, the call awaits the mutations
CycleStart(c) ==
    /\ program = "collective"
    /\ cycles[c].pc = "idle"
    /\ \E d \in Ticks, mu \in MutationChoices(emergentStrategies) :
          /\ now' = now + d
          /\ emergentStrategies' = MutatedPopulation(emergentStrategies, mu)
          /\ cycles' = [cycles EXCEPT ![c] =
                [pc |-> "mutations",
                 overlapped |-> OtherInProgress(c),
                 result |-> [previousGeneration |-> evolutionGeneration,
                             newGeneration |-> evolutionGeneration + 1,
                             mutations |-> Mutations(emergentStrategies, mu, now + d),
                             deprecated |-> <<>>]]]
    /\ UNCHANGED <<ctlVars, meshVars, tnVars, engineVars, experiences, patterns,
                   maxSize, history, run, evolutionGeneration, fitnessScore,
                   learnedPatterns, globalMetrics>>

\* lines 600-602: crossBreedStrategies runs, the call awaits the offspring
CycleBreed(c) ==
    /\ program = "collective"
    /\ cycles[c].pc = "mutations"
    /\ cycles' = [cycles EXCEPT ![c].pc = "offspring"]
    /\ UNCHANGED <<ctlVars, meshVars, tnVars, engineVars, storeVars, run,
                   evolutionGeneration, fitnessScore, learnedPatterns,
                   emergentStrategies, globalMetrics>>

\* lines 603-615: deprecateWeakPatterns, this.evolutionGeneration++,
\* resetFitnessBaselines, and the call awaits the broadcast
CycleAdvance(c) ==
    /\ program = "collective"
    /\ cycles[c].pc = "offspring"
    /\ learnedPatterns' = KeptPatterns(learnedPatterns)
    /\ evolutionGeneration' = evolutionGeneration + 1
    /\ globalMetrics' = [globalMetrics EXCEPT !.recentFitnessScores = <<>>]
    /\ cycles' = [cycles EXCEPT ![c].pc = "broadcast",
                                ![c].result.deprecated = DeprecatedPatterns(learnedPatterns)]
    /\ UNCHANGED <<ctlVars, meshVars, tnVars, engineVars, storeVars, run,
                   fitnessScore, emergentStrategies>>

\* line 617: return result
CycleReturn(c) ==
    /\ program = "collective"
    /\ cycles[c].pc = "broadcast"
    /\ cycles' = [cycles EXCEPT ![c].pc = "done"]
    /\ UNCHANGED <<ctlVars, meshVars, tnVars, engineVars, storeVars, run,
                   evolutionGeneration, fitnessScore, learnedPatterns,
                   emergentStrategies, globalMetrics>>

InitOverlap ==
    /\ program = "collective"
    /\ nops = 0
    /\ budget = 0
    /\ last = [op |-> "none"]
    /\ run = RunOff
    /\ maxSize = DefaultMaxSize
    /\ MeshFresh /\ TNFresh /\ StoreFresh /\ EngineFresh
    /\ fitnessScore = Half
    /\ learnedPatterns = <<>>
    /\ globalMetrics = FreshMetrics
    /\ cycles = NoCycles
    /\ \E ds \in {<<>>, <<OlderStrategies>>} :
          LET sys == ImportedAll([generation |-> 1, strategies |-> <<>>], ds)
          IN /\ evolutionGeneration = sys.generation
             /\ emergentStrategies = sys.strategies

NextOverlap ==
    \/ \E c \in CycleIds : CycleStart(c)
    \/ \E c \in CycleIds : CycleBreed(c)
    \/ \E c \in CycleIds : CycleAdvance(c)
    \/ \E c \in CycleIds : CycleReturn(c)

SpecOverlap == InitOverlap /\ [][NextOverlap]_vars

\* C36: when two evolution cycles overlap (one is suspended at an await
\* while the other starts or runs), the two cycles return different
\* newGeneration values and the generation counter after both complete
\* equals the larger newGeneration returned.
C36_OverlappingCyclesReturnDistinctGenerations ==
    (/\ program = "collective"
     /\ \A c \in CycleIds : cycles[c].pc = "done"
     /\ \E c \in CycleIds : cycles[c].overlapped) =>
        /\ cycles[1].result.newGeneration # cycles[2].result.newGeneration
        /\ evolutionGeneration = Max(cycles[1].result.newGeneration,
                                     cycles[2].result.newGeneration)

(* ---------------------------------------------------------------------- *)
(* Channels of agents whose ids contain hyphens                            *)
(*                                                                         *)
(* An agent id is any string; it is kept here as the sequence of its       *)
(* hyphen-separated segments: <<"a", "b">> is the id a-b.                   *)
(* ---------------------------------------------------------------------- *)

MaxChannelOps == 3

\* the ids a, a-b, b-c and c, in the order sorted() gives them
NameOrder == << <<"a">>, <<"a", "b">>, <<"b", "c">>, <<"c">> >>

AgentNames == {NameOrder[i] : i \in DOMAIN NameOrder}

NameRank(x) == CHOOSE i \in DOMAIN NameOrder : NameOrder[i] = x

\* sorted([agent1, agent2])
SortedNames(x, y) == IF NameRank(x) <= NameRank(y) THEN <<x, y>> ELSE <<y, x>>

\* _get_channel_id: f"channel-{agents[0]}-{agents[1]}"
get_channel_id(x, y) == <<"channel">> \o SortedNames(x, y)[1] \o SortedNames(x, y)[2]

\* send_message(from, to, type, content) between named agents
SendBetweenNames(from, to, type, content) ==
    /\ program = "mesh"
    /\ nops < budget
    /\ nego = IdleFrame
    /\ \E d \in Ticks :
          LET t == now + d
              id == get_channel_id(from, to)
              key == SortedNames(from, to)
              ch == IF id \in DOMAIN channels THEN channels
                    ELSE Put(channels, id,
                             [agents |-> <<from, to>>, created |-> t,
                              message_count |-> 0, last_activity |-> t,
                              status |-> "active"])
              ts == IF id \in DOMAIN channels \/ key \in DOMAIN trust_scores
                    THEN trust_scores
                    ELSE Put(trust_scores, key, Half)
              m == [id |-> <<"msg", t>>, from_agent |-> from, to_agent |-> to,
                    message_type |-> type, content |-> content, timestamp |-> t,
                    in_reply_to |-> "None",
                    confidence |-> Half + RoundDiv(MeshGet(ts, key), 2),
                    requires_response |-> type \in RequiresResponse]
          IN /\ now' = t
             /\ trust_scores' = ts
             /\ message_history' = Append(message_history, ToDict(m))
             /\ pending_messages' = PendingWith(pending_messages, m)
             /\ channels' = [ch EXCEPT ![id] =
                                [@ EXCEPT !.message_count = @ + 1, !.last_activity = t]]
             /\ communication_patterns' =
                    Append(communication_patterns,
                           [agents |-> <<from, to>>, type |-> type, timestamp |-> t,
                            confidence |-> m.confidence])
             /\ last' = [op |-> "send_message", result |-> m]
    /\ nops' = nops + 1
    /\ UNCHANGED <<delivered, program, budget, successful_exchanges, failed_exchanges, nego,
                   tnVars, experiences, patterns, maxSize, history, engineVars,
                   ciVars, run>>

\* the sends explored: a to b-c and back, a-b to c, a to c
NamedSends == {<< <<"a">>, <<"b", "c">> >>, << <<"b", "c">>, <<"a">> >>,
               << <<"a", "b">>, <<"c">> >>, << <<"a">>, <<"c">> >>}

InitChannels ==
    /\ program = "mesh"
    /\ nops = 0
    /\ budget = MaxChannelOps
    /\ last = [op |-> "none"]
    /\ run = RunOff
    /\ maxSize = DefaultMaxSize
    /\ MeshFresh /\ TNFresh /\ StoreFresh /\ EngineFresh /\ CIFresh

NextChannels ==
    \E pair \in NamedSends : SendBetweenNames(pair[1], pair[2], "query", [text |-> "q"])

SpecChannels == InitChannels /\ [][NextChannels]_vars

\* the number of messages sent between x and y, in either direction
SentBetween(x, y) ==
    Cardinality({i \in 1 .. Len(message_history) :
                    \/ /\ message_history[i].from_agent = x
                       /\ message_history[i].to_agent = y
                    \/ /\ message_history[i].from_agent = y
                       /\ message_history[i].to_agent = x})

RECURSIVE CountSum(_, _)
CountSum(ch, ids) ==
    IF ids = {} THEN 0
    ELSE LET id == CHOOSE i \in ids : TRUE
         IN ch[id].message_count + CountSum(ch, ids \ {id})

\* C38: after any sequence of send calls, a channel for the unordered pair
\* {a, b} exists iff at least one message has been sent between a and b, its
\* message_count equals the number of messages sent between them in either
\* direction, and the message history length equals the sum of all channels'
\* message_count.
C38_ChannelPerPairCountsMessages ==
    program = "mesh" =>
        /\ \A x, y \in AgentNames :
              /\ get_channel_id(x, y) \in DOMAIN channels <=> SentBetween(x, y) >= 1
              /\ get_channel_id(x, y) \in DOMAIN channels =>
                    channels[get_channel_id(x, y)].message_count = SentBetween(x, y)
        /\ Len(message_history) = CountSum(channels, DOMAIN channels)

(* ---------------------------------------------------------------------- *)
(* Negotiation between agents with a long run of failed exchanges          *)
(*                                                                         *)
(* A failed exchange multiplies the pair's trust by 0.85, so a run of them *)
(* takes the score below the resolution at which the acceptance sum        *)
(* 0.3 + trust * 0.4 + rounds * 0.1 is computed.  The run is followed here *)
(* at a thousand times the resolution of the scores and the result is      *)
(* rounded once.                                                           *)
(* ---------------------------------------------------------------------- *)

FineScale == Scale * Scale

\* update_trust(a, b, False) applied n times to a fresh pair, in units of
\* 1 / FineScale
RECURSIVE DistrustAfter(_)
DistrustAfter(n) ==
    IF n = 0 THEN FineScale \div 2
    ELSE CHOOSE v \in {p - RoundDiv(15 * p, 100) : p \in {DistrustAfter(n - 1)}} : TRUE

DefaultMaxRounds == 5       \* max_rounds: int = 5

\* a fresh mesh, or one whose agents 1 and 2 have a long run of failed
\* exchanges behind them
InitDistrust ==
    /\ program = "mesh"
    /\ nops = 0
    /\ budget = MaxMeshOps
    /\ last = [op |-> "none"]
    /\ run = RunOff
    /\ maxSize = DefaultMaxSize
    /\ \E warm \in {0, 2 * MaxWarm} :
          IF warm > 0
          THEN /\ trust_scores = Put(EmptyMap, <<1, 2>>,
                                     RoundDiv(DistrustAfter(warm), Scale))
               /\ successful_exchanges = 0
               /\ failed_exchanges = warm
               /\ MeshQuiet
          ELSE MeshFresh
    /\ TNFresh /\ StoreFresh /\ EngineFresh /\ CIFresh

SpecDistrust == InitDistrust /\ [][NextMesh]_vars

\* C39: in every state reachable from an empty mesh through sends,
\* negotiations and trust updates with quality in [0, 1], a negotiation run
\* with max_rounds = 5 under the default acceptance policy ends in agreement;
\* the no-agreement outcome is reachable only with a smaller max_rounds.
C39_FiveRoundsReachAgreement ==
    (program = "mesh" /\ last.op = "negotiate" /\ ~last.raised
       /\ last.max_rounds >= DefaultMaxRounds) =>
        last.result.success

(* ---------------------------------------------------------------------- *)
(* A system that imports the knowledge document it has just exported       *)
(* ---------------------------------------------------------------------- *)

MaxReimports == 2

\* importKnowledge(doc), where doc is what the last exportKnowledge() of this
\* system returned, with no call in between; and the same once more
importExported ==
    /\ program = "collective"
    /\ \/ last.op = "exportKnowledge"
       \/ last.op = "importExported" /\ last.times < MaxReimports
    /\ LET k == IF last.op = "exportKnowledge" THEN last.result ELSE last.document
       IN /\ learnedPatterns' = ImportPatterns(learnedPatterns, k.patterns)
          /\ emergentStrategies' = ImportStrategies(emergentStrategies, k.strategies)
          /\ evolutionGeneration' = ImportedGeneration(evolutionGeneration, k.generation)
          /\ last' = [op |-> "importExported", evolved |-> FALSE,
                      generation |-> k.generation, document |-> k,
                      times |-> IF last.op = "exportKnowledge" THEN 1
                                ELSE last.times + 1]
    /\ UNCHANGED <<program, nops, budget, fitnessScore, globalMetrics, storeVars,
                   meshVars, tnVars, engineVars, run, cycles>>

NextReimport ==
    \/ \E x \in Executions : learnFromExecution(x)
    \/ \E k \in Documents : importKnowledge(k)
    \/ exportKnowledge
    \/ importExported

SpecReimport == InitExport /\ [][NextReimport]_vars

\* the tables lp and lq hold the same pattern ids, each with the same
\* frequency and success rate
SamePatterns(lp, lq) ==
    /\ Len(lp) = Len(lq)
    /\ \A i \in 1 .. Len(lp) : \E j \in 1 .. Len(lq) :
          /\ lq[j].id = lp[i].id
          /\ lq[j].frequency = lp[i].frequency
          /\ lq[j].successRate = lp[i].successRate

\* C40: importing into a system the knowledge document the same system just
\* exported (no operation in between) leaves its generation, its set of
\* pattern ids and strategy ids, and every pattern's frequency and
\* success_rate unchanged; importing the same document twice has the same
\* effect as importing it once.
C40_ReimportChangesNothing ==
    [][(program = "collective" /\ last'.op = "importExported"
          /\ last' # last) =>
          /\ evolutionGeneration' = evolutionGeneration
          /\ StrategyIds(emergentStrategies') = StrategyIds(emergentStrategies)
          /\ SamePatterns(learnedPatterns, learnedPatterns')
      ]_vars

====
